---- MODULE Spec2Model ----
(***************************************************************************)
(* Verification model of youtube-command-deck.                             *)
(*                                                                         *)
(* SpecLive and SpecWeb model the live recording supervisor                *)
(* (live_flow.py), the downloader loop (ytbot_ytdlp.py), the stop bits and *)
(* ActiveLives table (state_store/runtime.py), the full-replay scheduler   *)
(* (replay_flow.py) and the web start/stop handlers (web_app.py), for      *)
(* requests arriving by Telegram and by the web API.                       *)
(* SpecGround models the acceptance of a model's answer to a question      *)
(* about a transcript (video_notes.py); SpecCache the Q&A cache of the web *)
(* API (web_app.py); SpecResearch the research pipeline                    *)
(* (market_research.py), its persisted runs (state_store/research.py) and  *)
(* the brew job of the web API that runs it.  SpecNotes models the notes   *)
(* endpoints of the web API, SpecHub its WebSocket hub and SpecSnap the    *)
(* lists of the job snapshots (web_app.py).                                *)
(* SpecJobs models the job tables, SpecTranscript the transcript files,    *)
(* SpecEmb the chunk embeddings, SpecTopics the research topics, SpecGet   *)
(* and SpecPost the read and write endpoints, SpecRetry the rotation of    *)
(* client profiles, SpecService the session classification, SpecRate the   *)
(* Claude rate limiter, SpecIndex the archive index table and the tables   *)
(* that reference it, SpecCompStart the start of component tests, and      *)
(* SpecReplay the replay tasks of bot and web recordings under fairness.   *)
(*                                                                         *)
(* Granularity: one action per stretch of code between two suspension      *)
(* points (await) of a flow; flows started from web request threads run    *)
(* on their own event loops, so the same interleavings apply to them.      *)
(* asyncio locks are modelled as mutexes.                                  *)
(***************************************************************************)
EXTENDS Integers, Sequences, FiniteSets, TLC

\* ------------------------------------------------------------------ bounds
NFlows == 2
NVids == 1
MaxProbeDelay == 1

\* ------------------------------------------ configuration (ytbot_config.py)
\* Times are in seconds, with short windows; the full-replay retry and the
\* notes after a LIVE are switched on.
UPCOMING_WAIT_SEC == 2
UPCOMING_POLL_SEC == 1
LIVE_STUCK_TIMEOUT_SEC == 1
ENABLE_FULL_REPLAY_RETRY == TRUE
AUTO_VIDEO_NOTES_FOR_LIVE == TRUE
NumVariants == 3

Flows == 1..NFlows
Vids == 1..NVids

VARIABLES
  flows,               \* per run_download_flow invocation: its position and locals
  active_lives,        \* STATE.active_lives (keys)
  stop_live_requests,  \* STATE.stop_live_requests
  archive_index,       \* load_index()/save_index(): video_id -> status ("none" = no record)
  state_lock,          \* STATE.state_lock holder (0 = free)
  replay_tasks,        \* STATE.replay_tasks
  transcript,          \* the lines of the transcript file a question is asked about
  reply,               \* the JSON object the model returned for the question
  qa_answer,           \* what answer_question_from_transcript returned
  transcript_file,     \* the transcript file of the video: st_mtime_ns, st_size, content
  video_qa_cache,      \* rec["video_qa_cache"] of the video, as saved in the index
  qa_runs,             \* per _run_qa call: its position and locals
  research,            \* the run_market_research invocation: its position and locals
  research_runs,       \* table research_runs: run_id -> status and report_text
  research_rows,       \* rows of research_videos, transcripts, facts, topics and transcript files: <<run_id, kind>>
  progress_events,     \* the events handed to on_progress, in order
  brew,                \* the runner thread of the brew job: its position and private_run
  brew_job,            \* the entry of the brew job in _BREW_JOBS
  notes_task_active,   \* _NOTES_TASK_ACTIVE: keys <<video_id, kind>>
  notes_progress,      \* _ANALYZE_PROGRESS and _ASK_PROGRESS: key -> row
  notes_reqs,          \* per POST /api/analyze or /api/ask request: its position and response
  ws_clients,          \* _WS_HUB.clients
  ws_conns,            \* per WebSocket connection: its state and the frames handed to it, in order
  ws_tasks,            \* per published event: its _broadcast_async task
  ws_ready,            \* the tasks the hub's event loop is to run, in order
  ws_published,        \* the number of events published so far
  deck_job,           \* a job of _BREW_JOBS or _COMPONENT_TEST_JOBS with its lists
  comp_jobs,           \* _COMPONENT_TEST_JOBS: the ids of its entries, numbered in order of creation
  comp_created,        \* the number of component test jobs created so far
  comp_reqs,           \* per request of POST /api/component_tests/run: its position
  brew_table,         \* _BREW_JOBS: job id -> status ("none" = no entry)
  tr_file,             \* the transcript file of the video under DATA_DIR/transcripts: exists, nonempty, version
  tr_index,            \* the record of the video in the index: video_transcript_path ("" = unset), video_notes
  tr_notes,            \* the run_video_notes flow: its position
  tr_last,             \* what the last operation returned if it was _save_transcript_from_url
  tr_prev,            \* the same for the operation before it
  emb_rows,            \* rows of transcript_chunk_embeddings of one (video_id, model): their content_hash and their number
  emb_call,           \* the last call of _semantic_chunk_scores: what it read, computed and did
  topics_in,           \* the topics handed to the last save_research_topics of the run
  topics_rows,         \* rows of research_run_topics of the run: <<topic_tag, weight>>
  topics_out,         \* what the load of the run returned since (loaded = FALSE: none yet)
  get_rec,             \* the record of the video in the archive index: its title ("" = none)
  get_titles,          \* the titles found in the transcript file and by yt_info ("" = none)
  get_job,             \* an entry of _COMPONENT_TEST_JOBS: status, started_perf, finished_perf, metrics
  get_clock,           \* perf_counter()
  get_last,           \* whether the last request handled was a GET
  post_req,            \* the POST request being handled: endpoint and payload (endpoint "" = none yet)
  post_resp,          \* the response sent to it and whether its backend workflow was invoked
  dl_call,            \* a call of ytdlp_download_with_progress or yt_info: its attempt, the failures so far, its end
  svc_call,           \* a call of classify_service_by_start: the configured split hour, the datetime, the result
  rl_clock,            \* time.time(), in seconds
  rl_times,            \* _CLAUDE_REQUEST_TIMES
  rl_threads,          \* each worker thread's place in _claude_wait_for_slot, its now and its wake-up time
  rl_grants,          \* the clock at each return of _claude_wait_for_slot, in order
  db_archive_index,    \* table archive_index: video_id -> record, or no row
  db_derived,          \* tables transcript_chunks, transcript_chunk_embeddings, video_embeddings, per video_id
  idx_workers,        \* each workflow between its load_index() and its save_index()
  ct_jobs,             \* _COMPONENT_TEST_JOBS in creation order: component and status of each job
  ct_reqs              \* each request thread inside _start_component_tests_job

liveVars == <<flows, active_lives, stop_live_requests, archive_index, state_lock, replay_tasks>>
groundVars == <<transcript, reply, qa_answer>>
cacheVars == <<transcript_file, video_qa_cache, qa_runs>>
researchVars == <<research, research_runs, research_rows, progress_events, brew, brew_job>>
notesVars == <<notes_task_active, notes_progress, notes_reqs>>
hubVars == <<ws_clients, ws_conns, ws_tasks, ws_ready, ws_published>>
snapVars == <<deck_job>>
jobsVars == <<comp_jobs, comp_created, comp_reqs, brew_table>>
transcriptVars == <<tr_file, tr_index, tr_notes, tr_last, tr_prev>>
embVars == <<emb_rows, emb_call>>
topicsVars == <<topics_in, topics_rows, topics_out>>
getVars == <<get_rec, get_titles, get_job, get_clock, get_last>>
postVars == <<post_req, post_resp>>
retryVars == <<dl_call>>
serviceVars == <<svc_call>>
rateVars == <<rl_clock, rl_times, rl_threads, rl_grants>>
indexVars == <<db_archive_index, db_derived, idx_workers>>
compStartVars == <<ct_jobs, ct_reqs>>
webVars == <<notesVars, hubVars, snapVars, jobsVars, transcriptVars, embVars, topicsVars, getVars, postVars, retryVars, serviceVars, rateVars, indexVars, compStartVars>>

\* what the actions of one part of the web API leave alone of the others
exceptNotes == <<hubVars, snapVars, jobsVars, transcriptVars, embVars, topicsVars, getVars, postVars, retryVars, serviceVars, rateVars, indexVars, compStartVars>>
exceptHub == <<notesVars, snapVars, jobsVars, transcriptVars, embVars, topicsVars, getVars, postVars, retryVars, serviceVars, rateVars, indexVars, compStartVars>>
exceptSnap == <<notesVars, hubVars, jobsVars, transcriptVars, embVars, topicsVars, getVars, postVars, retryVars, serviceVars, rateVars, indexVars, compStartVars>>
exceptJobs == <<notesVars, hubVars, snapVars, transcriptVars, embVars, topicsVars, getVars, postVars, retryVars, serviceVars, rateVars, indexVars, compStartVars>>
exceptTranscript == <<notesVars, hubVars, snapVars, jobsVars, embVars, topicsVars, getVars, postVars, retryVars, serviceVars, rateVars, indexVars, compStartVars>>
exceptEmb == <<notesVars, hubVars, snapVars, jobsVars, transcriptVars, topicsVars, getVars, postVars, retryVars, serviceVars, rateVars, indexVars, compStartVars>>
exceptTopics == <<notesVars, hubVars, snapVars, jobsVars, transcriptVars, embVars, getVars, postVars, retryVars, serviceVars, rateVars, indexVars, compStartVars>>
exceptGet == <<notesVars, hubVars, snapVars, jobsVars, transcriptVars, embVars, topicsVars, postVars, retryVars, serviceVars, rateVars, indexVars, compStartVars>>
exceptPost == <<notesVars, hubVars, snapVars, jobsVars, transcriptVars, embVars, topicsVars, getVars, retryVars, serviceVars, rateVars, indexVars, compStartVars>>
exceptRetry == <<notesVars, hubVars, snapVars, jobsVars, transcriptVars, embVars, topicsVars, getVars, postVars, serviceVars, rateVars, indexVars, compStartVars>>
exceptService == <<notesVars, hubVars, snapVars, jobsVars, transcriptVars, embVars, topicsVars, getVars, postVars, retryVars, rateVars, indexVars, compStartVars>>
exceptRate == <<notesVars, hubVars, snapVars, jobsVars, transcriptVars, embVars, topicsVars, getVars, postVars, retryVars, serviceVars, indexVars, compStartVars>>
exceptIndex == <<notesVars, hubVars, snapVars, jobsVars, transcriptVars, embVars, topicsVars, getVars, postVars, retryVars, serviceVars, rateVars, compStartVars>>
exceptCompStart == <<notesVars, hubVars, snapVars, jobsVars, transcriptVars, embVars, topicsVars, getVars, postVars, retryVars, serviceVars, rateVars, indexVars>>

vars == <<liveVars, groundVars, cacheVars, researchVars, webVars>>

\* ------------------------------------------------------------ pure helpers

\* ytbot_utils.is_live_like
is_live_like(ls) == ls \in {"is_live", "live", "is_upcoming", "was_live", "post_live"}

\* ytbot_utils.is_upcoming
is_upcoming(ls) == ls = "is_upcoming"

\* live_flow.run_download_flow lines 208-211: "live", "archived" or "vod"
FlowKind(ls, liveUrl) ==
  LET live == is_live_like(ls) \/ liveUrl
      active_live_now == ls \in {"is_live", "live", "is_upcoming"}
      archived_live_mode == live /\ liveUrl /\ ~active_live_now
  IN IF ~live THEN "vod" ELSE IF archived_live_mode THEN "archived" ELSE "live"

\* web_app._WebRunnerSignal._classify over the kinds of status text a flow emits
_classify(msg) ==
  CASE msg = "already" -> "already_running"
    [] msg = "started" -> "started"
    [] msg = "archived" -> "archived"
    [] msg = "upcoming" -> "upcoming"
    [] msg = "timedout" -> "failed"
    [] msg = "probe_error" -> "failed"
    [] OTHER -> "failed"

\* web_app._WebRunnerSignal.observe: only a non-pending class replaces the status
\* (the signal is read by nobody once the start handler has answered, and is
\* left alone from then on)
observe(st, msg) == IF st.origin = "web" /\ st.webStatus = "polling" THEN _classify(msg) ELSE st.sig

\* The locals of one run_download_flow invocation.  waited and idle are the
\* seconds since the upcoming wait began and since the part file last changed;
\* outcome names the path on which the flow returned; stopState and conc are
\* history (a stop accepted for this recording; another start call in progress).
IdleFlow ==
  [pc |-> "idle", origin |-> "bot", vid |-> 1, kind |-> "none",
   fromErr |-> FALSE, waited |-> 0, idle |-> 0, part |-> FALSE,
   reason |-> "none", sig |-> "none", webStatus |-> "none", conc |-> FALSE,
   outcome |-> "none",
   stopState |-> "none", task |-> "none"]

InitLive ==
  /\ flows = [f \in Flows |-> IdleFlow]
  /\ active_lives = {}
  /\ stop_live_requests = {}
  /\ archive_index = [v \in Vids |-> "none"]
  /\ state_lock = 0
  /\ replay_tasks = {}

Min(a, b) == IF a < b THEN a ELSE b

IsLive(kind) == kind \in {"live", "archived"}

SetFlow(f, r) == flows' = [flows EXCEPT ![f] = r]

\* A flow returns on the path named out.  A replay task created on a web
\* runner's private event loop is left behind when that loop is closed
\* (web_app._start_live_recording lines 1974-1987).
Ret(st, out) ==
  [st EXCEPT !.pc = "done", !.outcome = out, !.reason = "none",
             !.waited = 0, !.idle = 0, !.part = FALSE, !.fromErr = FALSE,
             !.stopState = "none",
             !.task = IF st.origin = "web" /\ st.task = "pending" THEN "abandoned" ELSE st.task]

\* live_flow.run_download_flow lines 190-211, once a probe result that is not
\* "upcoming" is in hand
\* (the URL's form is read here only, so it is drawn here)
AfterProbe(st, ls, liveUrl) ==
  LET k == FlowKind(ls, liveUrl)
  IN [st EXCEPT !.kind = k, !.fromErr = FALSE, !.waited = 0,
                !.pc = IF k = "live" THEN "check" ELSE "announce"]

\* runtime.clear_live_stop_request
clear_live_stop_request(v) == stop_live_requests' = stop_live_requests \ {v}

\* runtime.request_live_stop
request_live_stop(v) == stop_live_requests' = stop_live_requests \cup {v}

\* --------------------------------------------------- run_download_flow

\* what the first probe (yt_info) can answer: a live_status, the "will begin
\* in a few moments" error, or another error
ProbeResults == {"is_live", "is_upcoming", "was_live", "none", "will_begin", "error"}

\* lines 137-206: a request from origin o arrives and the first probe answers
Begin(f, o) ==
  /\ flows[f].pc = "idle"
  /\ \E lu \in BOOLEAN, v \in Vids, r \in ProbeResults :
       LET others == {g \in Flows \ {f} : flows[g].origin = "web" /\ flows[g].vid = v
                                            /\ flows[g].webStatus = "polling"}
           st == [IdleFlow EXCEPT !.origin = o, !.vid = v,
                     !.webStatus = IF o = "web" THEN "polling" ELSE "none",
                     !.sig = IF o = "web" THEN "pending" ELSE "none",
                     !.conc = (o = "web" /\ others # {})]
           mark(fl) == [g \in Flows |->
                          IF o = "web" /\ g \in others THEN [fl[g] EXCEPT !.conc = TRUE] ELSE fl[g]]
       IN CASE r = "error" ->
                 /\ flows' = mark([flows EXCEPT ![f] =
                        Ret([st EXCEPT !.sig = observe(st, "probe_error")],
                            "probe_failed")])
                 /\ UNCHANGED stop_live_requests
            [] r = "will_begin" ->
                 /\ flows' = mark([flows EXCEPT ![f] = [st EXCEPT !.pc = "wait", !.fromErr = TRUE]])
                 /\ UNCHANGED stop_live_requests
            [] r = "is_upcoming" ->
                 /\ flows' = mark([flows EXCEPT ![f] = [st EXCEPT !.pc = "wait"]])
                 /\ clear_live_stop_request(v)
            [] OTHER ->
                 /\ flows' = mark([flows EXCEPT ![f] = AfterProbe(st, r, lu)])
                 /\ clear_live_stop_request(v)
  /\ UNCHANGED <<active_lives, archive_index, state_lock, replay_tasks, groundVars, cacheVars, webVars, researchVars>>

MutWaitExpired(waited) == waited > 0

\* wait_for_upcoming_to_start: the loop guard of line 97
WaitExpired(waited) == waited > UPCOMING_WAIT_SEC

\* wait_for_upcoming_to_start lines 94-126, one loop iteration, and the caller's
\* handling of its result (lines 145-155, 196-206)
WaitPoll(f) ==
  LET st == flows[f] IN
  /\ st.pc = "wait"
  /\ IF WaitExpired(st.waited)
       THEN /\ SetFlow(f, Ret([st EXCEPT !.sig = observe(st, "timedout")],
                              "timed_out"))
            /\ UNCHANGED stop_live_requests
       ELSE \E d \in 0..MaxProbeDelay, lu \in BOOLEAN,
               r \in {"exception", "is_upcoming", "is_live", "was_live", "none"} :
              CASE r = "exception" ->
                     /\ SetFlow(f, [st EXCEPT !.waited = st.waited + d + UPCOMING_POLL_SEC])
                     /\ UNCHANGED stop_live_requests
                [] r = "is_upcoming" ->
                     /\ SetFlow(f, [st EXCEPT !.waited = st.waited + d + UPCOMING_POLL_SEC,
                                              !.sig = observe(st, "upcoming")])
                     /\ UNCHANGED stop_live_requests
                [] OTHER ->
                     /\ SetFlow(f, AfterProbe(st, r, lu))
                     /\ IF st.fromErr THEN clear_live_stop_request(st.vid)
                                      ELSE UNCHANGED stop_live_requests
  /\ UNCHANGED <<active_lives, archive_index, state_lock, replay_tasks, groundVars, cacheVars, webVars, researchVars>>

\* lines 213-227: the duplicate check under STATE.state_lock
CheckActive(f) ==
  LET st == flows[f] IN
  /\ st.pc = "check"
  /\ state_lock = 0
  /\ IF st.vid \in active_lives
       THEN /\ state_lock' = f
            /\ SetFlow(f, [st EXCEPT !.pc = "dup"])
       ELSE /\ state_lock' = state_lock
            /\ SetFlow(f, [st EXCEPT !.pc = "announce"])
  /\ UNCHANGED <<active_lives, stop_live_requests, archive_index, replay_tasks, groundVars, cacheVars, webVars, researchVars>>

\* lines 218-227: "already being recorded", sent while the lock is held
DupReport(f) ==
  LET st == flows[f] IN
  /\ st.pc = "dup"
  /\ state_lock' = 0
  /\ SetFlow(f, Ret([st EXCEPT !.sig = observe(st, "already")],
                    "already_running"))
  /\ UNCHANGED <<active_lives, stop_live_requests, archive_index, replay_tasks, groundVars, cacheVars, webVars, researchVars>>

\* lines 229-294 and 316: the start time is resolved and the status text sent
Announce(f) ==
  LET st == flows[f] IN
  /\ st.pc = "announce"
  /\ CASE st.kind = "live" ->
            /\ SetFlow(f, [st EXCEPT !.pc = "register",
                                     !.sig = observe(st, "started")])
            /\ UNCHANGED archive_index
       [] st.kind = "archived" ->
            /\ SetFlow(f, [st EXCEPT !.pc = "poll",
                                     !.sig = observe(st, "archived")])
            /\ archive_index' = [archive_index EXCEPT ![st.vid] = "recording"]
       [] OTHER ->
            /\ SetFlow(f, [st EXCEPT !.pc = "poll",
                                     !.sig = observe(st, "starting")])
            /\ UNCHANGED archive_index
  /\ UNCHANGED <<active_lives, stop_live_requests, state_lock, replay_tasks, groundVars, cacheVars, webVars, researchVars>>

\* lines 296-314: the ActiveLives entry and the "recording" record, under the lock
Register(f) ==
  LET st == flows[f] IN
  /\ st.pc = "register"
  /\ state_lock = 0
  /\ active_lives' = active_lives \cup {st.vid}
  /\ archive_index' = [archive_index EXCEPT ![st.vid] = "recording"]
  /\ SetFlow(f, [st EXCEPT !.pc = "poll"])
  /\ UNCHANGED <<stop_live_requests, state_lock, replay_tasks, groundVars, cacheVars, webVars, researchVars>>

\* ------------------------------------- ytbot_ytdlp.ytdlp_download_with_progress

\* lines 473-501: which failures of attempt idx (1..NumVariants) lead to the
\* next client profile
ShouldRetry(idx, retryable) == idx < NumVariants /\ retryable

\* a download of a plain video ends (run_download_flow lines 485-516, 521-532, 604)
VodEnd(st, out) ==
  Ret([st EXCEPT !.sig = observe(st, "final")], out)

\* lines 375-397: the top of the supervision loop of a live download; the stop
\* bit is polled first, then the stuck window is tested
LoopTop(live, stopRequested, idle) ==
  IF live /\ stopRequested THEN "LIVE_STOP_REQUESTED"
  ELSE IF live /\ idle > LIVE_STUCK_TIMEOUT_SEC THEN "LIVE_STUCK_TIMEOUT"
  ELSE "go"

\* lines 375-471, one turn of the supervision loop: the checks of LoopTop, then
\* up to one second waiting for a line of output, while the part file may grow
\* or the downloader process may end.  The number idx of the running attempt
\* is not kept in the state: it is drawn when an attempt fails.
DlStep(f) ==
  LET st0 == flows[f]
      st == [st0 EXCEPT !.stopState = IF @ = "accepted" THEN "polled" ELSE @]
      top == LoopTop(IsLive(st.kind), st.vid \in stop_live_requests, st.idle)
      raise(r) == [st EXCEPT !.pc = "h1", !.reason = r]
  IN
  /\ st.pc = "poll"
  /\ IF top # "go"
       THEN SetFlow(f, raise(top))
       ELSE \E ev \in {"timeout", "grow", "eof_ok", "eof_nofile", "eof_private",
                       "eof_retryable", "eof_fatal"}, idx \in 1..NumVariants :
         CASE ev = "timeout" ->
                SetFlow(f, [st EXCEPT
                   !.idle = IF IsLive(st.kind) THEN Min(st.idle + 1, LIVE_STUCK_TIMEOUT_SEC + 1) ELSE 0])
           [] ev = "grow" ->
                SetFlow(f, [st EXCEPT !.idle = 0, !.part = TRUE,
                                      !.sig = observe(st, "progress")])
           [] ev = "eof_ok" ->
                SetFlow(f, IF IsLive(st.kind) THEN raise("OK") ELSE VodEnd(st, "downloaded"))
           [] ev = "eof_nofile" ->
                SetFlow(f, IF IsLive(st.kind) THEN raise("NOFILE") ELSE VodEnd(st, "nofile"))
           [] ev = "eof_private" ->
                SetFlow(f, IF IsLive(st.kind) THEN raise("LIVE_BECAME_PRIVATE") ELSE VodEnd(st, "failed"))
           [] ev = "eof_retryable" ->
                SetFlow(f, IF ShouldRetry(idx, TRUE)
                           THEN [st EXCEPT !.idle = 0, !.sig = observe(st, "progress")]
                           ELSE IF IsLive(st.kind) THEN raise("ERROR") ELSE VodEnd(st, "failed"))
           [] ev = "eof_fatal" ->
                SetFlow(f, IF IsLive(st.kind) THEN raise("ERROR") ELSE VodEnd(st, "failed"))
  /\ UNCHANGED <<active_lives, stop_live_requests, archive_index, state_lock, replay_tasks, groundVars, cacheVars, webVars, researchVars>>

\* ------------------------------- run_download_flow: the outcome handlers

\* where a flow goes after a saved or partial LIVE (lines 461-483, 580-602)
AfterSave(st) ==
  IF ENABLE_FULL_REPLAY_RETRY /\ st.kind = "live" THEN "sched" ELSE "ret"

\* the exit path of run_download_flow taken for each downloader result
OutcomeOf(reason) ==
  CASE reason = "OK" -> "saved"
    [] reason = "LIVE_STOP_REQUESTED" -> "stopped"
    [] reason = "LIVE_STUCK_TIMEOUT" -> "stuck"
    [] reason = "LIVE_BECAME_PRIVATE" -> "private"
    [] reason = "NOFILE" -> "nofile"
    [] OTHER -> "failed"

\* the record written for a stuck or private LIVE (lines 416-441): only when a
\* part file is found
PartialStatus(part, old) == IF part THEN "partial" ELSE old

\* first half of a handler: lines 365-389 (stop), 405-441 (stuck, private),
\* 486-488 (error), 522-524 (no output file), 538-555 (saved)
Handle1(f) ==
  LET st == flows[f] v == st.vid IN
  /\ st.pc = "h1"
  /\ CASE st.reason = "LIVE_STOP_REQUESTED" ->
            /\ archive_index' = [archive_index EXCEPT ![v] = "stopped"]
            /\ UNCHANGED active_lives
       [] st.reason \in {"LIVE_STUCK_TIMEOUT", "LIVE_BECAME_PRIVATE"} ->
            /\ archive_index' = [archive_index EXCEPT ![v] = PartialStatus(st.part, @)]
            /\ UNCHANGED active_lives
       [] st.reason = "OK" ->
            /\ archive_index' = [archive_index EXCEPT ![v] = "saved"]
            /\ UNCHANGED active_lives
       [] OTHER ->
            /\ state_lock = 0
            /\ active_lives' = active_lives \ {v}
            /\ UNCHANGED archive_index
  /\ SetFlow(f, [st EXCEPT !.pc = "h2"])
  /\ UNCHANGED <<stop_live_requests, state_lock, replay_tasks, groundVars, cacheVars, webVars, researchVars>>

\* second half: lines 391-403 (stop), 443-459 (stuck, private), 489-516
\* (error), 525-532 (no output file), 557-578 (saved)
Handle2(f) ==
  LET st == flows[f] v == st.vid IN
  /\ st.pc = "h2"
  /\ CASE st.reason = "LIVE_STOP_REQUESTED" ->
            /\ state_lock = 0
            /\ active_lives' = active_lives \ {v}
            /\ clear_live_stop_request(v)
            /\ UNCHANGED archive_index
            /\ SetFlow(f, Ret([st EXCEPT !.sig = observe(st, "final")],
                              "stopped"))
       [] st.reason \in {"LIVE_STUCK_TIMEOUT", "LIVE_BECAME_PRIVATE", "OK"} ->
            /\ state_lock = 0
            /\ active_lives' = active_lives \ {v}
            /\ UNCHANGED <<archive_index, stop_live_requests>>
            /\ LET m == [st EXCEPT !.sig = observe(st, "final")]
               IN SetFlow(f, IF AfterSave(st) = "ret"
                             THEN Ret(m, OutcomeOf(st.reason))
                             ELSE [m EXCEPT !.pc = AfterSave(st)])
       [] st.reason = "NOFILE" ->
            /\ archive_index' = [archive_index EXCEPT ![v] = "partial"]
            /\ UNCHANGED <<active_lives, stop_live_requests>>
            /\ SetFlow(f, Ret([st EXCEPT !.sig = observe(st, "final")], "nofile"))
       [] OTHER ->
            /\ archive_index' = [archive_index EXCEPT ![v] = "failed"]
            /\ UNCHANGED <<active_lives, stop_live_requests>>
            /\ SetFlow(f, Ret([st EXCEPT !.sig = observe(st, "final")],
                              "failed"))
  /\ UNCHANGED <<state_lock, replay_tasks, groundVars, cacheVars, webVars, researchVars>>

Mut_schedule_full_replay_attempt(registered) == "pending"

\* replay_flow.schedule_full_replay_attempt lines 35-55: under
\* STATE.replay_tasks_lock the id is tested and added; a task is created only
\* by the call that added it
schedule_full_replay_attempt(registered) == IF registered THEN "skipped" ELSE "pending"

Schedule(f) ==
  LET st == flows[f]
      t == schedule_full_replay_attempt(st.vid \in replay_tasks)
      nxt == [st EXCEPT !.task = t]
  IN
  /\ st.pc = "sched"
  /\ replay_tasks' = IF t = "pending" THEN replay_tasks \cup {st.vid} ELSE replay_tasks
  /\ SetFlow(f, Ret(nxt, OutcomeOf(st.reason)))
  /\ UNCHANGED <<active_lives, stop_live_requests, archive_index, state_lock, groundVars, cacheVars, webVars, researchVars>>

\* lines 471-483, 590-602: a notes task follows every saved or partial LIVE
NotesSpawned(st) ==
  AUTO_VIDEO_NOTES_FOR_LIVE /\ st.pc = "done" /\ st.outcome \in {"saved", "stuck", "private"}

\* ------------------------------------------- replay_flow: the background task

\* try_download_full_replay lines 160-179: the status written with the full file
ReplayStatus(old) == IF old \in {"none", "failed"} THEN "saved" ELSE old

\* try_download_full_replay lines 58-212, on the bot's event loop: the attempt
\* ends with the full replay saved, with the server blocked, or at the deadline
ReplayRun(f) ==
  LET st == flows[f] IN
  /\ st.task = "pending"
  /\ st.origin = "bot"
  /\ \E res \in {"saved", "blocked", "deadline"} :
       archive_index' = IF res = "saved"
                        THEN [archive_index EXCEPT ![st.vid] = ReplayStatus(@)]
                        ELSE archive_index
  /\ SetFlow(f, [st EXCEPT !.task = "cleanup"])
  /\ UNCHANGED <<active_lives, stop_live_requests, state_lock, replay_tasks, groundVars, cacheVars, webVars, researchVars>>

\* schedule_full_replay_attempt._runner lines 51-53: the id is released
ReplayCleanup(f) ==
  LET st == flows[f] IN
  /\ st.task = "cleanup"
  /\ replay_tasks' = replay_tasks \ {st.vid}
  /\ SetFlow(f, [st EXCEPT !.task = "none"])
  /\ UNCHANGED <<active_lives, stop_live_requests, archive_index, state_lock, groundVars, cacheVars, webVars, researchVars>>

\* a task left behind on a closed web event loop never runs again; when its
\* coroutine is collected, the finally block of _runner (lines 51-53) runs
ReplayFinalize(f) ==
  LET st == flows[f] IN
  /\ st.task = "abandoned"
  /\ replay_tasks' = replay_tasks \ {st.vid}
  /\ SetFlow(f, [st EXCEPT !.task = "none"])
  /\ UNCHANGED <<active_lives, stop_live_requests, archive_index, state_lock, groundVars, cacheVars, webVars, researchVars>>

\* ----------------------------------------------------- web_app handlers

\* web_app._stop_live_recording lines 2137-2154 (also behind the bot's
\* /live_stop): accepted only while an ActiveLives entry exists.  Every
\* recording of the video that is downloading at that moment is noted as
\* having a stop accepted.
StopRequest(v) ==
  /\ v \in active_lives
  /\ request_live_stop(v)
  /\ flows' = [f \in Flows |->
       IF flows[f].vid = v /\ flows[f].kind = "live" /\ flows[f].pc = "poll"
          /\ flows[f].stopState = "none"
       THEN [flows[f] EXCEPT !.stopState = "accepted"] ELSE flows[f]]
  /\ UNCHANGED <<active_lives, archive_index, state_lock, replay_tasks, groundVars, cacheVars, webVars, researchVars>>

Decisive == {"started", "already_running", "upcoming", "archived", "failed"}

\* web_app._start_live_recording lines 1994-2011: one decisive turn of the
\* startup loop
StartupStatus(inActive, sigv, done) ==
  IF inActive THEN "started"
  ELSE IF sigv \in Decisive THEN sigv
  ELSE IF done THEN "failed"
  ELSE "polling"

WebPoll(f) ==
  LET st == flows[f]
      r == StartupStatus(st.vid \in active_lives, st.sig, st.pc = "done")
  IN
  /\ st.origin = "web"
  /\ st.webStatus = "polling"
  /\ r # "polling"
  /\ SetFlow(f, [st EXCEPT !.webStatus = r, !.sig = "none"])
  /\ UNCHANGED <<active_lives, stop_live_requests, archive_index, state_lock, replay_tasks, groundVars, cacheVars, webVars, researchVars>>

\* lines 1994, 2013-2018: the startup wait runs out after an indecisive turn
WebDeadline(f) ==
  LET st == flows[f] IN
  /\ st.origin = "web"
  /\ st.webStatus = "polling"
  /\ StartupStatus(st.vid \in active_lives, st.sig, st.pc = "done") = "polling"
  /\ SetFlow(f, [st EXCEPT !.webStatus = "requested", !.sig = "none"])
  /\ UNCHANGED <<active_lives, stop_live_requests, archive_index, state_lock, replay_tasks, groundVars, cacheVars, webVars, researchVars>>

\* ------------------------------------------ video_notes: grounded answers
\*
\* A text is a sequence of characters.  "T" stands for a leading time stamp
\* "[mm:ss]", "H" for a header prefix ("Title:", "Video ID:", "Generated:").

\* the least length of an evidence line that is looked up (8 characters in
\* _verify_evidence_lines, in units of four characters here)
MinEvidenceLen == 2

\* the limit argument of _verify_evidence_lines
EvidenceLimit == 3

\* how many transcript lines become evidence hints
\* (_build_qa_context_from_transcript, lines[:4])
MaxHints == 4

MaxTranscriptLines == 2
MaxEvidence == 2

TranscriptLines ==
  { <<"H", "a", "b">>,            \* Title: ab
    <<"T", " ", "a", "b", "a">>,  \* [00:01] aba
    <<"T">>,                      \* [00:02]
    <<"A", "b", " ">>,            \* Ab
    <<"b", "b", "b">> }

EvidenceLines ==
  { <<"a", "b">>,
    <<"T", "A", "B", "A", "b">>,
    <<"a">>,
    <<"a", "a", "a">>,
    <<" ">> }

SeqsUpTo(S, n) == UNION {[1..k -> S] : k \in 0..n}

\* str.strip() followed by re.sub(r"\s+", " ", ...)
RECURSIVE SquashSpaces(_)
SquashSpaces(s) ==
  IF s = <<>> THEN <<>>
  ELSE IF Head(s) = " " /\ (Len(s) = 1 \/ s[2] = " ") THEN SquashSpaces(Tail(s))
  ELSE <<Head(s)>> \o SquashSpaces(Tail(s))

\* str.strip()
RECURSIVE Strip(_)
Strip(s) ==
  IF s = <<>> THEN <<>>
  ELSE IF Head(s) = " " THEN Strip(Tail(s))
  ELSE IF s[Len(s)] = " " THEN Strip(SubSeq(s, 1, Len(s) - 1))
  ELSE s

\* str.lower()
Lower(s) ==
  [i \in 1..Len(s) |-> CASE s[i] = "A" -> "a" [] s[i] = "B" -> "b" [] s[i] = "Q" -> "q"
                         [] OTHER -> s[i]]

\* video_notes._norm_text_for_match
_norm_text_for_match(text) == SquashSpaces(Strip(Lower(text)))

\* re.sub(r"^\[\d{1,4}:[0-5]\d\]\s*", "", s)
RECURSIVE DropLeadingSpaces(_)
DropLeadingSpaces(s) ==
  IF s # <<>> /\ Head(s) = " " THEN DropLeadingSpaces(Tail(s)) ELSE s

StripStamp(s) == IF s # <<>> /\ Head(s) = "T" THEN DropLeadingSpaces(Tail(s)) ELSE s

\* Python's "a in b" for strings
IsSubstring(a, b) ==
  \E i \in 0..(Len(b) - Len(a)) : SubSeq(b, i + 1, i + Len(a)) = a

\* video_notes._transcript_body_lines
RECURSIVE _transcript_body_lines(_)
_transcript_body_lines(lines) ==
  IF lines = <<>> THEN <<>>
  ELSE LET ln == Strip(Head(lines))
       IN IF ln = <<>> \/ Head(ln) = "H" THEN _transcript_body_lines(Tail(lines))
          ELSE <<ln>> \o _transcript_body_lines(Tail(lines))

\* video_notes._verify_evidence_lines, the loop of lines 1208-1221 from the
\* evidence still to look up and the lines matched so far
RECURSIVE VerifyLoop(_, _, _, _)
VerifyLoop(evidence, body_lines, matched, limit) ==
  IF evidence = <<>> \/ (matched # <<>> /\ Len(matched) >= limit) THEN matched
  ELSE
    LET ev == _norm_text_for_match(StripStamp(Head(evidence)))
        norm_line(i) == _norm_text_for_match(StripStamp(body_lines[i]))
        original_line(i) == Strip(StripStamp(body_lines[i]))
        hits == {i \in 1..Len(body_lines) :
                   IsSubstring(ev, norm_line(i)) \/ IsSubstring(norm_line(i), ev)}
        first == CHOOSE i \in hits : \A j \in hits : i <= j
        seen == {_norm_text_for_match(matched[k]) : k \in 1..Len(matched)}
    IN IF Len(ev) < MinEvidenceLen \/ hits = {}
         THEN VerifyLoop(Tail(evidence), body_lines, matched, limit)
       ELSE IF _norm_text_for_match(original_line(first)) \in seen
         THEN VerifyLoop(Tail(evidence), body_lines, matched, limit)
       ELSE VerifyLoop(Tail(evidence), body_lines, Append(matched, original_line(first)), limit)

\* video_notes._verify_evidence_lines
_verify_evidence_lines(evidence, lines, limit) ==
  LET body_lines == _transcript_body_lines(lines)
  IN IF body_lines = <<>> THEN <<>> ELSE VerifyLoop(evidence, body_lines, <<>>, limit)

\* answer_question_from_transcript lines 2424-2429: the evidence items of the
\* model's reply, stripped, without the empty ones
RECURSIVE CleanEvidence(_)
CleanEvidence(raw) ==
  IF raw = <<>> THEN <<>>
  ELSE LET ln == Strip(Head(raw))
       IN IF ln = <<>> THEN CleanEvidence(Tail(raw)) ELSE <<ln>> \o CleanEvidence(Tail(raw))

\* _build_qa_context_from_transcript lines 2227-2231: the evidence hints of a
\* transcript short enough to be used whole
EvidenceHints(lines) ==
  LET body == _transcript_body_lines(lines)
  IN SubSeq(body, 1, IF Len(body) < MaxHints THEN Len(body) ELSE MaxHints)

\* answer_question_from_transcript lines 2421-2446: the evidence that is
\* verified for a reply
EvidenceToVerify(r, lines) ==
  LET evidence_lines == CleanEvidence(r.evidence)
  IN IF evidence_lines = <<>> THEN EvidenceHints(lines) ELSE evidence_lines

\* answer_question_from_transcript lines 2421-2480 for one backend and one
\* attempt: the reply is accepted, or the local fallback answers, or no
\* answer is given
Answer(r, lines, fallback) ==
  LET verified_evidence == _verify_evidence_lines(EvidenceToVerify(r, lines), lines, EvidenceLimit)
  IN IF r.status = "answered" /\ r.answer /\ verified_evidence # <<>>
       THEN [kind |-> "answered", evidence |-> verified_evidence]
     ELSE IF fallback THEN [kind |-> "fallback", evidence |-> <<>>]
     ELSE [kind |-> "unreliable", evidence |-> <<>>]

NoReply == [status |-> "none", answer |-> FALSE, evidence |-> <<>>]
NoAnswer == [kind |-> "none", evidence |-> <<>>]

\* no question is being answered
GroundIdle ==
  /\ transcript = <<>>
  /\ reply = NoReply
  /\ qa_answer = NoAnswer

\* _read_transcript: a transcript file that is not empty
InitGround ==
  /\ transcript \in SeqsUpTo(TranscriptLines, MaxTranscriptLines) \ {<<>>}
  /\ reply = NoReply
  /\ qa_answer = NoAnswer

\* answer_question_from_transcript: the model replies and the reply is judged
AnswerQuestion ==
  /\ qa_answer = NoAnswer
  /\ \E st \in {"answered", "insufficient"}, ans \in BOOLEAN, fallback \in BOOLEAN,
        ev \in SeqsUpTo(EvidenceLines, MaxEvidence) :
       LET r == [status |-> st, answer |-> ans, evidence |-> ev]
       IN /\ reply' = r
          /\ qa_answer' = Answer(r, transcript, fallback)
  /\ UNCHANGED <<transcript, liveVars, cacheVars, webVars, researchVars>>

\* the next question about the same transcript
NextQuestion ==
  /\ qa_answer # NoAnswer
  /\ reply' = NoReply
  /\ qa_answer' = NoAnswer
  /\ UNCHANGED <<transcript, liveVars, cacheVars, webVars, researchVars>>

\* ------------------------------------------------- web_app: the Q&A cache

NQaRuns == 2
MaxEdits == 2
MaxSize == 2

\* web_app.QA_CACHE_LIMIT (40 rows in the source)
QA_CACHE_LIMIT == 2

QaRuns == 1..NQaRuns

Questions == { <<"q">>, <<" ", "Q">>, <<"r">> }

\* web_app._transcript_stamp: f"{st_mtime_ns}:{st_size}"
_transcript_stamp(file) == <<file.mtime, ":", file.size>>

\* web_app._question_cache_key
_question_cache_key(question) == SquashSpaces(Strip(Lower(question)))

NoRow == [question_key |-> <<>>, transcript_stamp |-> <<>>, answer |-> <<>>]

Mut_qa_cached_answer(rows, question, stamp) ==
  LET hits == {i \in 1..Len(rows) : rows[i].question_key = _question_cache_key(question)}
  IN IF hits = {} THEN NoRow
     ELSE rows[CHOOSE i \in hits : \A j \in hits : j <= i]

\* web_app._qa_cached_answer: the last row with this question key and this
\* stamp that has an answer
_qa_cached_answer(rows, question, stamp) ==
  LET hits == {i \in 1..Len(rows) :
                 /\ rows[i].question_key = _question_cache_key(question)
                 /\ rows[i].transcript_stamp = stamp
                 /\ rows[i].answer # <<>>}
  IN IF hits = {} THEN NoRow
     ELSE rows[CHOOSE i \in hits : \A j \in hits : j <= i]

\* Python's rows[-n:]
LastRows(rows, n) == IF Len(rows) <= n THEN rows ELSE SubSeq(rows, Len(rows) - n + 1, Len(rows))

\* web_app._save_qa_cache_entry
_save_qa_cache_entry(rows, question, stamp, answer) ==
  LET entry == [question_key |-> _question_cache_key(question),
                transcript_stamp |-> stamp, answer |-> answer]
      filtered == SelectSeq(rows, LAMBDA row :
                     ~(row.question_key = entry.question_key
                       /\ row.transcript_stamp = entry.transcript_stamp))
  IN LastRows(Append(filtered, entry), QA_CACHE_LIMIT)

\* The locals of one _run_qa call.  content_at_stamp is history: the content
\* the file had when its stamp was taken.
IdleQa ==
  [pc |-> "idle", question |-> <<>>, transcript_stamp |-> <<>>, rows |-> <<>>,
   cached |-> FALSE, row |-> NoRow, content_at_stamp |-> 0]

InitCache ==
  /\ transcript_file = [mtime |-> 1, size |-> 1, content |-> 0]
  /\ video_qa_cache = <<>>
  /\ qa_runs = [r \in QaRuns |-> IdleQa]

\* _run_qa lines 1659-1686: the index is loaded, the stamp taken and the
\* cache looked up; a hit is the answer
RunQaLookup(r) ==
  /\ qa_runs[r].pc = "idle"
  /\ \E q \in Questions :
       LET stamp == _transcript_stamp(transcript_file)
           cached_row == _qa_cached_answer(video_qa_cache, q, stamp)
           cached == cached_row # NoRow
       IN qa_runs' = [qa_runs EXCEPT ![r] =
            [pc |-> IF cached THEN "done" ELSE "answering",
             question |-> q, transcript_stamp |-> stamp,
             rows |-> IF cached THEN <<>> ELSE video_qa_cache,
             cached |-> cached, row |-> cached_row,
             content_at_stamp |-> transcript_file.content]]
  /\ UNCHANGED <<transcript_file, video_qa_cache, liveVars, groundVars, webVars, researchVars>>

\* _run_qa lines 1687-1719: the answer is made from the transcript as it is
\* read now, entered in the loaded record under the stamp taken before, and
\* the index is saved
RunQaAnswer(r) ==
  LET run == qa_runs[r]
      answer == <<_question_cache_key(run.question), transcript_file.content>>
  IN
  /\ run.pc = "answering"
  /\ video_qa_cache' = _save_qa_cache_entry(run.rows, run.question, run.transcript_stamp, answer)
  /\ qa_runs' = [qa_runs EXCEPT ![r] = [run EXCEPT !.pc = "done", !.rows = <<>>]]
  /\ UNCHANGED <<transcript_file, liveVars, groundVars, webVars, researchVars>>

\* the call returns
RunQaReturn(r) ==
  /\ qa_runs[r].pc = "done"
  /\ qa_runs' = [qa_runs EXCEPT ![r] = IdleQa]
  /\ UNCHANGED <<transcript_file, video_qa_cache, liveVars, groundVars, webVars, researchVars>>

\* the transcript is written again (Path.write_text): new content, a later
\* st_mtime_ns, any size
ModifyTranscript ==
  /\ transcript_file.content < MaxEdits
  /\ \E sz \in 1..MaxSize :
       transcript_file' = [mtime |-> transcript_file.mtime + 1, size |-> sz,
                           content |-> transcript_file.content + 1]
  /\ UNCHANGED <<video_qa_cache, qa_runs, liveVars, groundVars, webVars, researchVars>>

\* ------------------------------------ market_research: the research pipeline

MaxRuns == 2
MaxVideos == 2

RunIds == 1..MaxRuns

\* progress.ratio is kept in hundredths: 100 is the ratio 1.0 of the
\* completed and failed events (run_market_research lines 1080, 1117)
FullRatio == 100

\* the locals of one run_market_research invocation.  run_id 0 is the empty
\* id; total is len(videos) and videos the number still to process; error
\* names the step that raised ("" while none has); reported tells whether
\* the report was handed to the caller; ended tells how the invocation
\* ended: "returned", or "raised" when the exception left it.
IdleResearch ==
  [pc |-> "idle", caller |-> "none", persist |-> FALSE, run_id |-> 0,
   total |-> 0, videos |-> 0, skipped |-> FALSE, error |-> "",
   completed |-> FALSE, reported |-> FALSE, ended |-> "no"]

\* a brew job of the web API: no entry in _BREW_JOBS, no runner thread
NoJob ==
  [status |-> "none", ratio |-> 0, last_event_type |-> "", error |-> "",
   run_id |-> 0, current_index |-> 0, total_videos |-> 0, reviewed |-> 0,
   report_text |-> FALSE]

IdleBrew == [pc |-> "idle", private_run |-> FALSE]

InitResearch ==
  /\ research = IdleResearch
  /\ research_runs = [id \in RunIds |-> [status |-> "none", report_text |-> <<>>]]
  /\ research_rows = {}
  /\ progress_events = <<>>
  /\ brew = IdleBrew
  /\ brew_job = NoJob

\* who calls: the bot (telegram_handlers lines 694, 1493: a real bot, no
\* on_progress, no on_report), the web Knowledge Juice call
\* (web_app._run_knowledge_juice: a null bot, on_report, no on_progress) or
\* a brew job (web_app line 2325: a null bot and on_progress)
Callers == {"telegram", "juice", "brew"}

\* the event dictionary built by _emit_progress, with the payload the
\* callers read
ProgressEvent(event_type, i, n, ratio, run_id, error) ==
  [event_type |-> event_type, current_index |-> i, total_videos |-> n,
   ratio |-> ratio, run_id |-> run_id, error |-> error]

Mut_VideoRatio(done, n) == 35 + ((45 * (n - done)) \div n)

\* progress.ratio of the per-video events, lines 916 and 1012, in hundredths
VideoRatio(done, n) == 35 + ((45 * done) \div n)

Mut_emit_progress(caller, events, event) == IF event.event_type = "comparing" THEN events ELSE Append(events, event)

\* market_research._emit_progress: nothing without on_progress
_emit_progress(caller, events, event) ==
  IF caller = "brew" THEN Append(events, event) ELSE events

\* web_app._update_brew_job: nothing when the job is not in the table
_update_brew_job(job, patch) ==
  IF job.status = "none" THEN job
  ELSE [f \in DOMAIN job |-> IF f \in DOMAIN patch THEN patch[f] ELSE job[f]]

Mut_handle_brew_progress(job, evt) == job

\* web_app._handle_brew_progress: the patch one event makes to the job
_handle_brew_progress(job, evt) ==
  LET etype == evt.event_type
      base == [last_event_type |-> etype, ratio |-> evt.ratio]
      idx == [current_index |-> evt.current_index, total_videos |-> evt.total_videos]
      patch ==
        CASE etype \in {"started", "comparing"} -> base @@ [status |-> "running"]
          [] etype = "processing_video" -> base @@ idx @@ [status |-> "running"]
          [] etype = "video_processed" ->
               base @@ idx @@ [reviewed |-> job.reviewed + 1]
          [] etype = "completed" ->
               base @@ [status |-> "completed", run_id |-> evt.run_id, report_text |-> TRUE]
          [] etype = "failed" ->
               base @@ [status |-> "failed", run_id |-> evt.run_id,
                        error |-> IF evt.error = "" THEN "Brewing failed." ELSE evt.error]
          [] OTHER -> base
  IN _update_brew_job(job, patch)

RECURSIVE HandleAll(_, _)
HandleAll(job, evts) ==
  IF evts = <<>> THEN job
  ELSE HandleAll(_handle_brew_progress(job, Head(evts)), Tail(evts))

\* the on_progress callback of a brew job (web_app line 2325), called
\* synchronously by _emit_progress for every event appended in this step
on_progress(job, before, after) ==
  IF Len(after) > Len(before)
    THEN HandleAll(job, SubSeq(after, Len(before) + 1, Len(after)))
    ELSE job

\* a call of the bot API fails only with a real bot (web_app._WebNullBot)
BotMayFail(caller) == IF caller = "telegram" THEN BOOLEAN ELSE {FALSE}

\* state_store.research.create_research_run: a new row, status 'running'
create_research_run(runs, id) ==
  [runs EXCEPT ![id] = [status |-> "running", report_text |-> <<>>]]

\* state_store.research.finalize_research_run
finalize_research_run(runs, id, status, report_text) ==
  IF id = 0 THEN runs
  ELSE [runs EXCEPT ![id] = [status |-> status, report_text |-> report_text]]

\* state_store.research save_research_videos, save_research_video_transcript,
\* save_research_video_fact, save_research_topics: a row of this kind for
\* the run; the store functions return at once for the empty id.  The
\* transcript file (video_notes._save_full_transcript) is written by the
\* caller whatever the id.
SaveRows(rows, id, kinds) ==
  IF id = 0 THEN rows ELSE rows \cup {<<id, k>> : k \in kinds}

Mut_Persisted(run) == TRUE

\* run_market_research `if persist and run_id` (lines 879, 959, 976, 1051)
Persisted(run) == run.persist /\ run.run_id # 0

Mut_OnException(run, runs, err) == runs

\* run_market_research lines 1089-1099: what the handler of an exception
\* raised at step err writes
OnException(run, runs, err) ==
  IF run.persist /\ run.run_id # 0
    THEN finalize_research_run(runs, run.run_id, "failed", <<"Research failed: ", err>>)
    ELSE runs

\* run_market_research lines 1089-1119: the exception handler as a whole
Fail(run, runs, events, err) ==
  /\ research_runs' = OnException(run, runs, err)
  /\ progress_events' = _emit_progress(run.caller, events,
       ProgressEvent("failed", 0, 0, FullRatio, run.run_id, err))
  /\ research' = [run EXCEPT !.pc = "ended", !.error = err, !.ended = "returned"]

\* web_app._start_knowledge_juice_job lines 2276-2312, 2360: the job enters
\* the table as queued and its runner thread is started
StartBrewJob ==
  /\ brew.pc = "idle"
  /\ research.pc = "idle"
  /\ \E p \in BOOLEAN : brew' = [pc |-> "queued", private_run |-> p]
  /\ brew_job' = [NoJob EXCEPT !.status = "queued"]
  /\ UNCHANGED <<research, research_runs, research_rows, progress_events,
                 liveVars, groundVars, cacheVars, webVars>>

\* the runner thread, line 2317: the job is running; run_knowledge_juice is
\* called next
BrewRunnerBegin ==
  /\ brew.pc = "queued"
  /\ brew' = [brew EXCEPT !.pc = "call"]
  /\ brew_job' = _update_brew_job(brew_job, [status |-> "running"])
  /\ UNCHANGED <<research, research_runs, research_rows, progress_events,
                 liveVars, groundVars, cacheVars, webVars>>

\* lines 736-784: the invocation begins and the status message is sent; a
\* failure here leaves the function.  A brew job's runner calls with
\* persist = not private_run
ResearchStart ==
  /\ research.pc = "idle"
  /\ research.ended = "no"
  /\ \E c \in Callers, p \in BOOLEAN :
       /\ IF c = "brew" THEN brew.pc = "call" /\ p = ~brew.private_run
                        ELSE brew.pc = "idle"
       /\ \E fails \in BotMayFail(c) :
            research' = IF fails
              THEN [IdleResearch EXCEPT !.pc = "ended", !.caller = c, !.persist = p,
                                        !.error = "send_message", !.ended = "raised"]
              ELSE [IdleResearch EXCEPT !.pc = "intent", !.caller = c, !.persist = p]
       /\ brew' = IF c = "brew" THEN [brew EXCEPT !.pc = "await"] ELSE brew
  /\ progress_events' = <<>>
  /\ UNCHANGED <<research_runs, research_rows, brew_job,
                 liveVars, groundVars, cacheVars, webVars>>

\* lines 786-808: "started", the goal is parsed and the run is created
ResearchIntent ==
  /\ research.pc = "intent"
  /\ LET ev == _emit_progress(research.caller, progress_events,
                              ProgressEvent("started", 0, 0, 5, 0, ""))
         free == {id \in RunIds : research_runs[id].status = "none"}
     IN \E raised \in BOOLEAN :
          IF raised
            THEN Fail(research, research_runs, ev, "parse_goal_intent")
            ELSE LET id == IF research.persist THEN CHOOSE i \in free : \A j \in free : i <= j
                                               ELSE 0
                 IN /\ research' = [research EXCEPT !.pc = "queries", !.run_id = id]
                    /\ research_runs' = IF id = 0 THEN research_runs
                                        ELSE create_research_run(research_runs, id)
                    /\ progress_events' = ev
  /\ brew_job' = on_progress(brew_job, progress_events, progress_events')
  /\ UNCHANGED <<research_rows, brew, liveVars, groundVars, cacheVars, webVars>>

\* lines 810-822: the status is edited and the queries are generated
ResearchQueries ==
  /\ research.pc = "queries"
  /\ \E raised \in BOOLEAN, fails \in BotMayFail(research.caller) :
       IF fails THEN Fail(research, research_runs, progress_events, "edit_message_text")
       ELSE IF raised THEN Fail(research, research_runs, progress_events, "generate_queries")
       ELSE /\ research' = [research EXCEPT !.pc = "collect"]
            /\ progress_events' = _emit_progress(research.caller, progress_events,
                 ProgressEvent("queries_ready", 0, 0, 20, 0, ""))
            /\ UNCHANGED research_runs
  /\ brew_job' = on_progress(brew_job, progress_events, progress_events')
  /\ UNCHANGED <<research_rows, brew, liveVars, groundVars, cacheVars, webVars>>

\* lines 824-893: candidate videos are collected; with none the run is
\* finalized as failed and an error raised; else the videos are saved
ResearchCollect ==
  /\ research.pc = "collect"
  /\ \E raised \in BOOLEAN, n \in 0..MaxVideos :
       IF raised
         THEN /\ Fail(research, research_runs, progress_events, "collect_candidate_videos")
              /\ UNCHANGED research_rows
       ELSE IF n = 0
         THEN /\ Fail(research,
                      finalize_research_run(research_runs, research.run_id, "failed",
                                            <<"Research failed: ", "no_videos">>),
                      progress_events, "no_videos")
              /\ UNCHANGED research_rows
       ELSE /\ research' = [research EXCEPT !.pc = "video", !.videos = n, !.total = n]
            /\ research_rows' = IF Persisted(research)
                                  THEN SaveRows(research_rows, research.run_id, {"videos"})
                                  ELSE research_rows
            /\ progress_events' = _emit_progress(research.caller, progress_events,
                 ProgressEvent("candidates_ready", 0, n, 35, 0, ""))
            /\ UNCHANGED research_runs
  /\ brew_job' = on_progress(brew_job, progress_events, progress_events')
  /\ UNCHANGED <<brew, liveVars, groundVars, cacheVars, webVars>>

\* lines 903-1016: one video; without a transcript it is skipped; with one,
\* the transcript file, its row and the facts are saved when persisting
ResearchVideo ==
  /\ research.pc = "video"
  /\ LET n == research.total
         i == n - research.videos + 1
         ev == _emit_progress(research.caller, progress_events,
                 ProgressEvent("processing_video", i, n, VideoRatio(i - 1, n), 0, ""))
         nxt == [research EXCEPT !.videos = research.videos - 1,
                                 !.pc = IF research.videos = 1 THEN "compare" ELSE "video"]
     IN \E res \in {"raised", "skipped", "processed"} :
          CASE res = "raised" ->
                 \E saved \in BOOLEAN :
                   /\ Fail(research, research_runs, ev, "extract_video_facts")
                   /\ research_rows' =
                        IF saved /\ Persisted(research)
                          THEN SaveRows(research_rows, research.run_id, {"transcript"})
                                 \cup {<<research.run_id, "transcript_file">>}
                          ELSE research_rows
            [] res = "skipped" ->
                 /\ research' = [nxt EXCEPT !.skipped = TRUE]
                 /\ progress_events' = ev
                 /\ UNCHANGED <<research_runs, research_rows>>
            [] OTHER ->
                 /\ research' = nxt
                 /\ research_rows' =
                      IF Persisted(research)
                        THEN SaveRows(research_rows, research.run_id, {"transcript", "fact"})
                             \cup {<<research.run_id, "transcript_file">>}
                        ELSE research_rows
                 /\ progress_events' = _emit_progress(research.caller, ev,
                      ProgressEvent("video_processed", i, n, VideoRatio(i, n), 0, ""))
                 /\ UNCHANGED research_runs
  /\ brew_job' = on_progress(brew_job, progress_events, progress_events')
  /\ UNCHANGED <<brew, liveVars, groundVars, cacheVars, webVars>>

\* lines 1018-1081: the comparison, the report, the topics saved and the
\* run finalized as completed when persisting, on_report, "completed"
ResearchCompare ==
  /\ research.pc = "compare"
  /\ LET ev == _emit_progress(research.caller, progress_events,
                              ProgressEvent("comparing", 0, 0, 90, 0, ""))
     IN \E raised \in BOOLEAN, fails \in BotMayFail(research.caller) :
          IF fails
            THEN /\ Fail(research, research_runs, progress_events, "edit_message_text")
                 /\ UNCHANGED research_rows
          ELSE IF raised
            THEN /\ Fail(research, research_runs, ev, "compare_and_report")
                 /\ UNCHANGED research_rows
          ELSE /\ research' = [research EXCEPT !.pc = "deliver", !.completed = TRUE,
                                 !.reported = (research.caller \in {"juice", "brew"})]
               /\ research_rows' = IF Persisted(research)
                                     THEN SaveRows(research_rows, research.run_id, {"topics"})
                                     ELSE research_rows
               /\ research_runs' =
                    IF Persisted(research)
                      THEN finalize_research_run(research_runs, research.run_id, "completed", <<"report">>)
                      ELSE research_runs
               /\ progress_events' = _emit_progress(research.caller, ev,
                    ProgressEvent("completed", 0, 0, FullRatio, research.run_id, ""))
  /\ brew_job' = on_progress(brew_job, progress_events, progress_events')
  /\ UNCHANGED <<brew, liveVars, groundVars, cacheVars, webVars>>

\* lines 1083-1088: the status message is deleted and the report sent
ResearchDeliver ==
  /\ research.pc = "deliver"
  /\ \E fails \in BotMayFail(research.caller) :
       IF fails THEN Fail(research, research_runs, progress_events, "send_long_message")
       ELSE /\ research' = [research EXCEPT !.pc = "ended", !.ended = "returned",
                                            !.reported = TRUE]
            /\ UNCHANGED <<research_runs, progress_events>>
  /\ brew_job' = on_progress(brew_job, progress_events, progress_events')
  /\ UNCHANGED <<research_rows, brew, liveVars, groundVars, cacheVars, webVars>>

\* state_store.research.get_public_research_run: the public row of the run
PublicRun(runs, id) ==
  IF id # 0 /\ runs[id].status # "none" THEN runs[id] ELSE [status |-> "none", report_text |-> <<>>]

\* the runner thread, lines 2343-2346: a job not yet completed or failed
\* is completed
FinalStatus(job) ==
  IF job.status \notin {"completed", "failed"}
    THEN _update_brew_job(job, [status |-> "completed"])
    ELSE job

\* the runner thread, lines 2333-2348, after run_knowledge_juice returned
\* or raised: the job takes the status of the public run; an exception
\* (of the call, or of the store read) makes the job failed
BrewRunnerFinish ==
  /\ brew.pc = "await"
  /\ research.pc = "ended" /\ research.caller = "brew"
  /\ \E store_raises \in BOOLEAN :
       LET item == PublicRun(research_runs, research.run_id)
       IN brew_job' =
            IF research.ended = "raised"
              THEN _update_brew_job(brew_job, [status |-> "failed", error |-> research.error])
            ELSE IF research.run_id # 0 /\ store_raises
              THEN _update_brew_job(brew_job, [status |-> "failed", error |-> "store_error"])
            ELSE IF research.run_id # 0 /\ item.status # "none"
              THEN FinalStatus(_update_brew_job(brew_job,
                     [run_id |-> research.run_id, report_text |-> TRUE,
                      status |-> item.status]))
            ELSE FinalStatus(brew_job)
  /\ brew' = [brew EXCEPT !.pc = "done"]
  /\ UNCHANGED <<research, research_runs, research_rows, progress_events,
                 liveVars, groundVars, cacheVars, webVars>>

\* the next invocation, while run ids remain
ResearchAgain ==
  /\ research.pc = "ended"
  /\ research.caller = "brew" => brew.pc = "done"
  /\ \E id \in RunIds : research_runs[id].status = "none"
  /\ research' = IdleResearch
  /\ brew' = IdleBrew
  /\ UNCHANGED <<research_runs, research_rows, progress_events, brew_job,
                 liveVars, groundVars, cacheVars, webVars>>

\* ------------------------------------------------ notes tasks (web_app.py)
\* POST /api/analyze and /api/ask are served by the threads of a
\* ThreadingHTTPServer.  A `with _NOTES_TASK_LOCK:` block holds no blocking
\* call and is one step.

NReqs == 3
MaxPhase == 2

Reqs == 1..NReqs
NoteKinds == {"analyze", "ask"}

Mut_try_start_notes_task(active, key) == [ok |-> TRUE, active |-> active \cup {key}]

\* web_app._try_start_notes_task: what it returns and the set it leaves
_try_start_notes_task(active, key) ==
  IF key \in active THEN [ok |-> FALSE, active |-> active]
  ELSE [ok |-> TRUE, active |-> active \cup {key}]

Mut_finish_notes_task(active, key) == active

\* web_app._finish_notes_task
_finish_notes_task(active, key) == active \ {key}

\* web_app._set_analyze_progress / _set_ask_progress: the row of a video,
\* as far as a reader can tell one snapshot from another
ProgressRow(phase, status, done) == [phase |-> phase, status |-> status, done |-> done]

\* a handler thread at rest; started tells whether the workflow
\* (_run_analysis, _run_qa) was invoked for the request
IdleReq ==
  [pc |-> "idle", key |-> <<0, "">>, started |-> FALSE, raised |-> FALSE,
   response |-> [http |-> 0, ok |-> FALSE, status |-> "", in_progress |-> FALSE,
                 item |-> ProgressRow(0, "", FALSE)]]

InitNotes ==
  /\ notes_task_active = {}
  /\ notes_progress = [k \in Vids \X NoteKinds |-> ProgressRow(0, "", FALSE)]
  /\ notes_reqs = [r \in Reqs |-> IdleReq]

\* do_POST lines 2760-2791 and 2833-2864: the request arrives; without the
\* key it is answered already_running with the progress snapshot
NotesPost(r) ==
  /\ notes_reqs[r].pc = "idle"
  /\ \E key \in Vids \X NoteKinds :
       LET t == _try_start_notes_task(notes_task_active, key)
           snap == [notes_progress[key] EXCEPT !.status = "running", !.done = FALSE]
       IN /\ notes_task_active' = t.active
          /\ notes_reqs' = [notes_reqs EXCEPT ![r] =
               IF t.ok
                 THEN [IdleReq EXCEPT !.pc = "work", !.key = key, !.started = TRUE]
                 ELSE [IdleReq EXCEPT !.pc = "answered", !.key = key,
                         !.response = [http |-> 200, ok |-> TRUE, status |-> "already_running",
                                       in_progress |-> TRUE, item |-> snap]]]
  /\ UNCHANGED <<notes_progress, exceptNotes, liveVars, groundVars, cacheVars, researchVars>>

\* _run_analysis / _run_qa under way: a progress row is written
NotesProgress(r) ==
  /\ notes_reqs[r].pc = "work"
  /\ notes_progress[notes_reqs[r].key].phase < MaxPhase
  /\ notes_progress' = [notes_progress EXCEPT ![notes_reqs[r].key] =
       ProgressRow(@.phase + 1, "running", FALSE)]
  /\ UNCHANGED <<notes_task_active, notes_reqs, exceptNotes,
                 liveVars, groundVars, cacheVars, researchVars>>

\* do_POST lines 2792-2805 and 2865-2878, 3049: the workflow returns or
\* raises, the finally releases the key, the response is sent
NotesFinish(r) ==
  /\ notes_reqs[r].pc = "work"
  /\ \E raised \in BOOLEAN :
       /\ notes_progress' = [notes_progress EXCEPT ![notes_reqs[r].key] =
            ProgressRow(0, IF raised THEN "failed" ELSE "completed", TRUE)]
       /\ notes_reqs' = [notes_reqs EXCEPT ![r] =
            [@ EXCEPT !.pc = "answered", !.raised = raised,
               !.response = [http |-> IF raised THEN 500 ELSE 200, ok |-> ~raised,
                             status |-> IF raised THEN "error" ELSE "completed",
                             in_progress |-> FALSE, item |-> ProgressRow(0, "", FALSE)]]]
  /\ notes_task_active' = _finish_notes_task(notes_task_active, notes_reqs[r].key)
  /\ UNCHANGED <<exceptNotes, liveVars, groundVars, cacheVars, researchVars>>

\* the handler thread serves its next request
NotesNext(r) ==
  /\ notes_reqs[r].pc = "answered"
  /\ notes_reqs' = [notes_reqs EXCEPT ![r] = IdleReq]
  /\ UNCHANGED <<notes_task_active, notes_progress, exceptNotes,
                 liveVars, groundVars, cacheVars, researchVars>>

\* ------------------------------------------- WebSocket hub (web_app.py)
\* The hub's event loop runs the connection handlers and one
\* _broadcast_async task per published event.  A task runs without
\* interruption from one suspension to the next; `await ws.send(data)`
\* hands the frame to the connection at the call and suspends the task
\* only while the connection's write buffer is full (a slow reader), and it
\* raises at once on a closed connection.  list(self.clients) is taken in
\* the order of the client numbers.

NClients == 2
MaxEvents == 3

Clients == 1..NClients
Events == 1..MaxEvents

\* the greeting, as an entry of the frames a connection was handed
Hello == 0

NoTask == [pc |-> "none", todo |-> <<>>, bad |-> {}]

InitHub ==
  /\ ws_clients = {}
  /\ ws_conns = [c \in Clients |-> [state |-> "none", paused |-> FALSE, frames |-> <<>>,
                                    waiters |-> <<>>, waited |-> FALSE]]
  /\ ws_tasks = [e \in Events |-> NoTask]
  /\ ws_ready = <<>>
  /\ ws_published = 0

Mut_handler(conn) == [conn EXCEPT !.state = "open"]

\* _WebSocketHub._handler lines 667-684, after clients.add: the greeting is
\* the first frame handed to the connection
_handler(conn) == [conn EXCEPT !.state = "open", !.frames = <<Hello>>]

\* a client connects to /ws: its handler adds it to the clients and greets
WsConnect(c) ==
  /\ ws_conns[c].state = "none"
  /\ ws_clients' = ws_clients \cup {c}
  /\ ws_conns' = [ws_conns EXCEPT ![c] = _handler(@)]
  /\ UNCHANGED <<ws_tasks, ws_ready, ws_published, exceptHub,
                 liveVars, groundVars, cacheVars, researchVars>>

\* _WebSocketHub.broadcast lines 732-738, called by the thread that changed
\* a job (_update_brew_job line 2198): the event is numbered in publish
\* order and its task is queued on the loop; the publisher does not wait
Broadcast ==
  /\ ws_published < MaxEvents
  /\ ws_published' = ws_published + 1
  /\ ws_tasks' = [ws_tasks EXCEPT ![ws_published + 1] = [NoTask EXCEPT !.pc = "ready"]]
  /\ ws_ready' = Append(ws_ready, ws_published + 1)
  /\ UNCHANGED <<ws_clients, ws_conns, exceptHub,
                 liveVars, groundVars, cacheVars, researchVars>>

\* the ascending sequence of a set of clients
RECURSIVE SeqOf(_)
SeqOf(S) ==
  IF S = {} THEN <<>>
  ELSE LET c == CHOOSE x \in S : \A y \in S : x <= y
       IN <<c>> \o SeqOf(S \ {c})

\* _broadcast_async lines 724-728, the loop over the clients from the head
\* of todo until a send suspends or the list ends: the connections, the
\* failed clients and the clients still to serve that it leaves.  A send
\* suspends while the write buffer is full and behind the sends already
\* suspended on the connection
RECURSIVE SendLoop(_, _, _, _)
SendLoop(e, todo, conns, bad) ==
  IF todo = <<>> THEN [conns |-> conns, bad |-> bad, todo |-> <<>>, suspended |-> FALSE]
  ELSE LET c == Head(todo)
       IN IF conns[c].state # "open"
            THEN SendLoop(e, Tail(todo), conns, bad \cup {c})
          ELSE IF conns[c].paused \/ conns[c].waiters # <<>>
            THEN [conns |-> [conns EXCEPT ![c].frames = Append(@, e),
                                          ![c].waiters = Append(@, e),
                                          ![c].waited = TRUE],
                  bad |-> bad, todo |-> todo, suspended |-> TRUE]
          ELSE SendLoop(e, Tail(todo), [conns EXCEPT ![c].frames = Append(@, e)], bad)

\* the loop runs the task at the head of its ready queue: a new task takes
\* list(self.clients); a woken task finds its send returned or raised; at
\* the end the failed clients are discarded (lines 729-730).  A task that
\* suspended behind woken sends only is ready again after them
HubRun ==
  /\ ws_ready # <<>>
  /\ LET e == Head(ws_ready)
         t == ws_tasks[e]
         woken == t.pc = "waiting"
         c == Head(t.todo)
         raised == woken /\ ws_conns[c].state # "open"
         todo == IF woken THEN Tail(t.todo) ELSE SeqOf(ws_clients)
         conns == IF woken
                    THEN [ws_conns EXCEPT ![c].waiters = SelectSeq(@, LAMBDA x : x # e)]
                    ELSE ws_conns
         r == SendLoop(e, todo, conns, IF raised THEN t.bad \cup {c} ELSE t.bad)
         requeue == r.suspended /\ ~r.conns[Head(r.todo)].paused
     IN /\ ws_conns' = r.conns
        /\ ws_tasks' = [ws_tasks EXCEPT ![e] =
             [pc |-> IF r.suspended THEN "waiting" ELSE "done", todo |-> r.todo, bad |-> r.bad]]
        /\ ws_clients' = IF r.suspended THEN ws_clients ELSE ws_clients \ r.bad
        /\ ws_ready' = IF requeue THEN Append(Tail(ws_ready), e) ELSE Tail(ws_ready)
  /\ UNCHANGED <<ws_published, exceptHub, liveVars, groundVars, cacheVars, researchVars>>

\* a subscriber stops reading: the write buffer of its connection is full
ClientPauses(c) ==
  /\ ws_conns[c].state = "open" /\ ~ws_conns[c].paused
  /\ ws_conns' = [ws_conns EXCEPT ![c].paused = TRUE]
  /\ UNCHANGED <<ws_clients, ws_tasks, ws_ready, ws_published, exceptHub,
                 liveVars, groundVars, cacheVars, researchVars>>

\* the subscriber reads again (closed = FALSE) or its connection is lost
\* (closed = TRUE): the sends suspended on it are woken in their order
ClientResumes(c, closed) ==
  /\ ws_conns[c].state = "open"
  /\ closed \/ ws_conns[c].paused
  /\ ws_conns' = [ws_conns EXCEPT ![c].paused = FALSE,
                                  ![c].state = IF closed THEN "closed" ELSE "open"]
  /\ ws_ready' = ws_ready \o
       SelectSeq(ws_conns[c].waiters,
                 LAMBDA x : \A i \in 1..Len(ws_ready) : ws_ready[i] # x)
  /\ UNCHANGED <<ws_clients, ws_tasks, ws_published, exceptHub,
                 liveVars, groundVars, cacheVars, researchVars>>

\* _handler lines 685-687: the handler of a lost connection ends and
\* discards the client
WsHandlerExit(c) ==
  /\ ws_conns[c].state = "closed" /\ c \in ws_clients
  /\ ws_clients' = ws_clients \ {c}
  /\ UNCHANGED <<ws_conns, ws_tasks, ws_ready, ws_published, exceptHub,
                 liveVars, groundVars, cacheVars, researchVars>>

\* ------------------------------------------------------ specifications

\* telegram_handlers: a message with a URL (lines 1023, 1626) starts a flow
\* as a task of the bot's event loop
Start(f) == Begin(f, "bot")

\* web_app._start_live_recording lines 1952-1993: the flow is started on a
\* thread of its own, and the startup loop begins
WebStart(f) == Begin(f, "web")

FlowStep(f) ==
  \/ WaitPoll(f)
  \/ CheckActive(f)
  \/ DupReport(f)
  \/ Announce(f)
  \/ Register(f)
  \/ DlStep(f)
  \/ Handle1(f)
  \/ Handle2(f)
  \/ Schedule(f)

\* ------------------------------------------- job snapshots (web_app.py)
MaxLogLines == 222
MaxTestIds == 401

\* the clamp of max_videos in _normalize_brew_config
MaxVideosCap == 40
CandidateLimit == 24
ReviewedSnapshotLimit == 36
ReviewedLimit == 60
_COMPONENT_TEST_LOG_LIMIT == 220
_COMPONENT_TEST_CASE_LIMIT == 400

\* _clip_list: items[: max(1, limit)]
_clip_list(items, limit) ==
  SubSeq(items, 1, Min(Len(items), IF limit < 1 THEN 1 ELSE limit))

\* list items are numbered: video i of the run, log line i, test id i
Numbered(n) == [i \in 1..n |-> i]

NoDeckJob == [kind |-> "none"]

InitSnap == deck_job = NoDeckJob

\* _job_snapshot, the lists of the snapshot of a brew job
_job_snapshot(job) ==
  [candidate_videos |-> _clip_list(job.candidate_videos, CandidateLimit),
   reviewed_videos |-> _clip_list(job.reviewed_videos, ReviewedSnapshotLimit),
   current_index |-> job.current_index]

\* _component_job_snapshot, the lists of the snapshot of a component test job
_component_job_snapshot(job) ==
  [log_tail |-> _clip_list(job.log_tail, _COMPONENT_TEST_LOG_LIMIT),
   test_cases |-> _clip_list(job.test_cases, _COMPONENT_TEST_CASE_LIMIT)]

\* _start_knowledge_juice_job: the new entry of _BREW_JOBS
StartDeckBrewJob ==
  /\ deck_job.kind = "none"
  /\ deck_job' = [kind |-> "brew", candidate_videos |-> <<>>, reviewed_videos |-> <<>>,
                  total_candidates |-> 0, current_index |-> 0]
  /\ UNCHANGED <<exceptSnap, liveVars, groundVars, cacheVars, researchVars>>

\* _handle_brew_progress on "candidates_ready": at most max_videos videos
CandidatesReady(n) ==
  /\ deck_job.kind = "brew" /\ deck_job.total_candidates = 0
  /\ deck_job' = [deck_job EXCEPT !.candidate_videos = Numbered(n), !.total_candidates = n]
  /\ UNCHANGED <<exceptSnap, liveVars, groundVars, cacheVars, researchVars>>

\* _append_brew_review: reviewed.append(video); reviewed[-60:]
_append_brew_review(job, video) ==
  [job EXCEPT !.reviewed_videos = LastRows(Append(@, video), ReviewedLimit)]

\* _handle_brew_progress on "video_processed" for the next video of the run
VideoProcessed ==
  /\ deck_job.kind = "brew" /\ deck_job.current_index < deck_job.total_candidates
  /\ LET i == deck_job.current_index + 1
     IN deck_job' = [_append_brew_review(deck_job, i) EXCEPT !.current_index = i]
  /\ UNCHANGED <<exceptSnap, liveVars, groundVars, cacheVars, researchVars>>

\* _start_component_test_job: rows of build_test_case_rows for n test ids
StartComponentJob(n) ==
  /\ deck_job.kind = "none"
  /\ deck_job' = [kind |-> "component", log_tail |-> <<>>, lines |-> 0,
                  test_cases |-> _clip_list(Numbered(n), _COMPONENT_TEST_CASE_LIMIT)]
  /\ UNCHANGED <<exceptSnap, liveVars, groundVars, cacheVars, researchVars>>

\* _append_component_test_log for the next line of the test run
_append_component_test_log ==
  /\ deck_job.kind = "component" /\ deck_job.lines < MaxLogLines
  /\ deck_job' = [deck_job EXCEPT
       !.lines = @ + 1,
       !.log_tail = LastRows(Append(@, deck_job.lines + 1), _COMPONENT_TEST_LOG_LIMIT)]
  /\ UNCHANGED <<exceptSnap, liveVars, groundVars, cacheVars, researchVars>>

\* ------------------------------------------- job tables (web_app.py)
NCompReqs == 2
MaxCompJobs == 27
MaxBrewJobs == 3

_COMPONENT_TEST_JOB_LIMIT == 24

CompReqs == 1..NCompReqs
BrewIds == 1..MaxBrewJobs

InitJobs ==
  /\ comp_jobs = {}
  /\ comp_created = 0
  /\ comp_reqs = [r \in CompReqs |-> "idle"]
  /\ brew_table = [j \in BrewIds |-> "none"]

\* _trim_component_test_jobs: beyond the limit, keep the entries with the
\* greatest created_at
_trim_component_test_jobs(jobs) ==
  IF Cardinality(jobs) <= _COMPONENT_TEST_JOB_LIMIT THEN jobs
  ELSE {j \in jobs : Cardinality({k \in jobs : k > j}) < _COMPONENT_TEST_JOB_LIMIT}

\* _start_component_tests_job up to the release of the lock it adds the
\* new entry under
CompJobStart(r) ==
  /\ comp_reqs[r] = "idle" /\ comp_created < MaxCompJobs
  /\ comp_created' = comp_created + 1
  /\ comp_jobs' = comp_jobs \cup {comp_created + 1}
  /\ comp_reqs' = [comp_reqs EXCEPT ![r] = "trim"]
  /\ UNCHANGED <<brew_table, exceptJobs, liveVars, groundVars, cacheVars, researchVars>>

\* _start_component_tests_job, its call of _trim_component_test_jobs
CompJobTrim(r) ==
  /\ comp_reqs[r] = "trim"
  /\ comp_jobs' = _trim_component_test_jobs(comp_jobs)
  /\ comp_reqs' = [comp_reqs EXCEPT ![r] = "idle"]
  /\ UNCHANGED <<comp_created, brew_table, exceptJobs, liveVars, groundVars, cacheVars, researchVars>>

\* _start_knowledge_juice_job: the new entry of _BREW_JOBS
BrewTableStart(j) ==
  /\ brew_table[j] = "none" /\ \A k \in BrewIds : k < j => brew_table[k] # "none"
  /\ brew_table' = [brew_table EXCEPT ![j] = "queued"]
  /\ UNCHANGED <<comp_jobs, comp_created, comp_reqs, exceptJobs,
                 liveVars, groundVars, cacheVars, researchVars>>

\* _runner of a brew job: it begins
BrewTableRun(j) ==
  /\ brew_table[j] = "queued"
  /\ brew_table' = [brew_table EXCEPT ![j] = "running"]
  /\ UNCHANGED <<comp_jobs, comp_created, comp_reqs, exceptJobs,
                 liveVars, groundVars, cacheVars, researchVars>>

\* _runner of a brew job: its last _update_brew_job
BrewTableFinish(j, status) ==
  /\ brew_table[j] = "running"
  /\ brew_table' = [brew_table EXCEPT ![j] = status]
  /\ UNCHANGED <<comp_jobs, comp_created, comp_reqs, exceptJobs,
                 liveVars, groundVars, cacheVars, researchVars>>

\* ------------------------------- transcript files (web_app.py, video_notes.py)
MaxWrites == 4

\* str(DATA_DIR / "transcripts" / f"{video_id}.txt")
DefaultPath == "transcripts/vid.txt"

NoFile == [exists |-> FALSE, nonempty |-> FALSE, version |-> 0]
NoResult == [returned |-> FALSE]

InitTranscript ==
  /\ tr_file = NoFile
  /\ tr_index = [video_transcript_path |-> "", video_notes |-> FALSE]
  /\ tr_notes = "idle"
  /\ tr_last = NoResult
  /\ tr_prev = NoResult

\* _resolve_transcript_path: the path of the record, else the default one
_resolve_transcript_path(record) ==
  IF record.video_transcript_path # "" THEN record.video_transcript_path ELSE DefaultPath

\* existing_path.exists() and existing_path.is_file() and st_size > 0
Mut_HasTranscript(path, file) == FALSE
HasTranscript(path, file) ==
  path = DefaultPath /\ file.exists /\ file.nonempty

\* _save_full_transcript: out.write_text(header + transcript + "\n")
_save_full_transcript(file) ==
  [exists |-> TRUE, nonempty |-> TRUE, version |-> file.version + 1]

\* _save_transcript_from_url(url, force) that returns: the cached branch
\* (lines 2429-2444), else the download, the write and save_index
SaveTranscript(force) ==
  LET existing_path == _resolve_transcript_path(tr_index)
      cached == ~force /\ HasTranscript(existing_path, tr_file)
  IN /\ cached \/ tr_file.version < MaxWrites
     /\ tr_file' = IF cached THEN tr_file ELSE _save_full_transcript(tr_file)
     /\ tr_index' = IF cached THEN tr_index ELSE [tr_index EXCEPT !.video_transcript_path = DefaultPath]
     /\ tr_last' = [returned |-> TRUE, force |-> force, cached |-> cached,
                    transcript_path |-> IF cached THEN existing_path ELSE DefaultPath,
                    version |-> tr_file'.version]
     /\ tr_prev' = tr_last
     /\ UNCHANGED <<tr_notes, exceptTranscript, liveVars, groundVars, cacheVars, researchVars>>

\* _save_transcript_from_url that raises: no captions and no audio, or no
\* text extracted; nothing is written
SaveTranscriptFails(force) ==
  /\ force \/ ~HasTranscript(_resolve_transcript_path(tr_index), tr_file)
  /\ tr_last' = NoResult /\ tr_prev' = NoResult
  /\ UNCHANGED <<tr_file, tr_index, tr_notes, exceptTranscript,
                 liveVars, groundVars, cacheVars, researchVars>>

\* run_market_research lines 958-967 of a persisted run: the transcript of
\* the video is saved whether or not a file exists; the write may fail
\* after the file was truncated
ResearchSavesTranscript(written) ==
  /\ tr_file.version < MaxWrites
  /\ tr_file' = IF written THEN _save_full_transcript(tr_file)
                ELSE [exists |-> TRUE, nonempty |-> FALSE, version |-> tr_file.version + 1]
  /\ tr_last' = NoResult /\ tr_prev' = NoResult
  /\ UNCHANGED <<tr_index, tr_notes, exceptTranscript, liveVars, groundVars, cacheVars, researchVars>>

\* run_video_notes lines 2511-2515: is there a saved transcript to reuse
NotesLooksUp ==
  /\ tr_notes = "idle"
  /\ tr_notes' = IF HasTranscript(DefaultPath, tr_file) THEN "cached" ELSE "missing"
  /\ tr_last' = NoResult /\ tr_prev' = NoResult
  /\ UNCHANGED <<tr_file, tr_index, exceptTranscript, liveVars, groundVars, cacheVars, researchVars>>

\* run_video_notes lines 2603-2610 and 2683: the transcript is saved unless
\* one was found, and its path recorded in the index
NotesSavesTranscript ==
  /\ tr_notes \in {"cached", "missing"}
  /\ tr_notes = "missing" => tr_file.version < MaxWrites
  /\ tr_file' = IF tr_notes = "missing" THEN _save_full_transcript(tr_file) ELSE tr_file
  /\ tr_index' = [video_transcript_path |-> DefaultPath, video_notes |-> TRUE]
  /\ tr_notes' = "idle"
  /\ tr_last' = NoResult /\ tr_prev' = NoResult
  /\ UNCHANGED <<exceptTranscript, liveVars, groundVars, cacheVars, researchVars>>

\* ------------------------------ chunk embeddings (video_notes.py, embeddings.py)
NContents == 4
MaxChunks == 3
MaxEmpty == 2

\* the transcripts a question may be asked about: the content hash of the
\* chunk payload (sha256, taken as injective) and its number of chunks
Transcripts ==
  {[content_hash |-> h, chunks |-> ((h - 1) % MaxChunks) + 1] : h \in 1..NContents}

NoRows == [content_hash |-> 0, count |-> 0]
NoCall == [called |-> FALSE]

InitEmb ==
  /\ emb_rows = NoRows
  /\ emb_call = NoCall

\* get_transcript_embedding_meta: COALESCE(MAX(content_hash), ''), COUNT(*);
\* _semantic_chunk_scores takes ("", 0) when the query raises
get_transcript_embedding_meta(rows, raises) ==
  IF raises THEN NoRows ELSE rows

\* _semantic_chunk_scores line 1567
Mut_needs_rebuild(stored_hash, stored_count, content_hash, n) ==
  stored_hash # content_hash
needs_rebuild(stored_hash, stored_count, content_hash, n) ==
  stored_hash # content_hash \/ stored_count < n

\* save_transcript_chunk_embeddings: the rows of (video_id, model) are
\* deleted and one row is inserted per non-empty vector
save_transcript_chunk_embeddings(content_hash, vectors) ==
  IF vectors = 0 THEN NoRows ELSE [content_hash |-> content_hash, count |-> vectors]

\* _semantic_chunk_scores for a transcript t: meta_raises - the meta query
\* fails; embed_ok - _embed_texts returns one vector per chunk; empty - how
\* many of the vectors are empty
SemanticChunkScores(t, meta_raises, embed_ok, empty) ==
  LET stored == get_transcript_embedding_meta(emb_rows, meta_raises)
      rebuild == needs_rebuild(stored.content_hash, stored.count, t.content_hash, t.chunks)
      saved == rebuild /\ embed_ok
  IN /\ empty <= t.chunks
     /\ emb_rows' = IF saved
                      THEN save_transcript_chunk_embeddings(t.content_hash, t.chunks - empty)
                      ELSE emb_rows
     /\ emb_call' = [called |-> TRUE, meta_read |-> ~meta_raises, stored |-> emb_rows,
                     current |-> t, needs_rebuild |-> rebuild, saved |-> saved]
     /\ UNCHANGED <<exceptEmb, liveVars, groundVars, cacheVars, researchVars>>

\* ----------------------------------- research topics (state_store/research.py)
MaxTopics == 3

\* tags as given: 1 = "a", 2 = "b", 3 = " A "; weights in tenths
RawTags == 1..3
Weights == {0 - 3, 0, 2, 5, 9, 12}

\* str(tag).strip().lower() with runs of whitespace collapsed: the tag
\* stored, numbered in the order of topic_tag ASC
NormTag(raw) == IF raw = 3 THEN 1 ELSE raw

TopicLists ==
  UNION {[1..n -> [tag : RawTags, weight : Weights]] : n \in 0..MaxTopics}

NoLoad == [loaded |-> FALSE, topics |-> <<>>]

InitTopics ==
  /\ topics_in = <<>>
  /\ topics_rows = {}
  /\ topics_out = NoLoad

\* float(item.get("weight") or 1.0), then max(0.0, min(1.0, weight))
ClampWeight(weight) ==
  LET w == IF weight = 0 THEN 10 ELSE weight
  IN IF w < 0 THEN 0 ELSE IF w > 10 THEN 10 ELSE w

\* save_research_topics lines 290-307: the loop that builds `normalized`
RECURSIVE Normalized(_, _)
Normalized(topics, seen) ==
  IF topics = <<>> THEN <<>>
  ELSE LET tag == NormTag(Head(topics).tag)
       IN IF tag \in seen THEN Normalized(Tail(topics), seen)
          ELSE <<[tag |-> tag, weight |-> ClampWeight(Head(topics).weight)]>>
               \o Normalized(Tail(topics), seen \cup {tag})

\* save_research_topics, called once for a run: the rows of the run are
\* replaced by `normalized`
save_research_topics(topics) ==
  /\ topics_in = <<>> /\ ~topics_out.loaded
  /\ topics_in' = topics
  /\ topics_rows' = {Normalized(topics, {})[i] : i \in 1..Len(Normalized(topics, {}))}
  /\ topics_out' = NoLoad
  /\ UNCHANGED <<exceptTopics, liveVars, groundVars, cacheVars, researchVars>>

\* SELECT topic_tag, weight ... ORDER BY weight DESC, topic_tag ASC
RECURSIVE OrderedRows(_)
OrderedRows(rows) ==
  IF rows = {} THEN <<>>
  ELSE LET first == CHOOSE r \in rows : \A q \in rows :
                      r.weight > q.weight \/ (r.weight = q.weight /\ r.tag <= q.tag)
       IN <<first>> \o OrderedRows(rows \ {first})

\* get_public_research_run, the topics of the run
LoadTopics ==
  /\ ~topics_out.loaded
  /\ topics_out' = [loaded |-> TRUE, topics |-> OrderedRows(topics_rows)]
  /\ UNCHANGED <<topics_in, topics_rows, exceptTopics, liveVars, groundVars, cacheVars, researchVars>>

\* ----------------------------------------- read endpoints (web_app.py)
MaxClock == 4

\* titles: "" = none, VideoId = a title that looks like a video id
VideoId == "dQw4w9WgXcQ"
Titles == {"", VideoId, "Title A", "Title B"}

InitGet ==
  /\ get_rec = [video_title |-> ""]
  /\ get_titles = [transcript |-> "", remote |-> ""]
  /\ get_job = [status |-> "queued", started_perf |-> 0, finished_perf |-> 0, metrics |-> 0]
  /\ get_clock = 1
  /\ get_last = FALSE

\* _resolve_video_title with allow_remote=True
_resolve_video_title(rec, titles) ==
  IF rec.video_title # "" /\ rec.video_title # VideoId THEN rec.video_title
  ELSE IF titles.transcript # "" /\ titles.transcript # VideoId THEN titles.transcript
  ELSE IF titles.remote # "" /\ titles.remote # VideoId THEN titles.remote
  ELSE IF rec.video_title # "" THEN rec.video_title ELSE VideoId

\* GET /api/video: _video_detail lines 1143-1161, what it leaves in the index
_video_detail ==
  LET title == _resolve_video_title(get_rec, get_titles)
  IN /\ get_rec' = IF title # "" /\ title # VideoId /\ get_rec.video_title # title
                     THEN [video_title |-> title] ELSE get_rec
     /\ get_last' = TRUE
     /\ UNCHANGED <<get_titles, get_job, get_clock, exceptGet,
                    liveVars, groundVars, cacheVars, researchVars>>

\* _refresh_component_job_metrics: duration_sec of job["metrics"]
_refresh_component_job_metrics(job, now_perf) ==
  [job EXCEPT !.metrics =
     IF job.finished_perf > 0
       THEN (IF job.finished_perf > job.started_perf THEN job.finished_perf - job.started_perf ELSE 0)
     ELSE IF job.started_perf > 0
       THEN (IF now_perf > job.started_perf THEN now_perf - job.started_perf ELSE 0)
     ELSE 0]

\* GET /api/component_tests/jobs: _list_component_test_jobs takes the
\* snapshot of every entry, and _component_job_snapshot refreshes its metrics
_list_component_test_jobs ==
  /\ get_job' = _refresh_component_job_metrics(get_job, get_clock)
  /\ get_last' = TRUE
  /\ UNCHANGED <<get_rec, get_titles, get_clock, exceptGet,
                 liveVars, groundVars, cacheVars, researchVars>>

\* the runner of the component test job: _update_component_test_job at its
\* start and at its end
ComponentRunnerUpdates ==
  /\ get_job.status \in {"queued", "running"}
  /\ get_job' = _refresh_component_job_metrics(
       IF get_job.status = "queued"
         THEN [get_job EXCEPT !.status = "running", !.started_perf = get_clock]
         ELSE [get_job EXCEPT !.status = "completed", !.finished_perf = get_clock],
       get_clock)
  /\ get_last' = FALSE
  /\ UNCHANGED <<get_rec, get_titles, get_clock, exceptGet,
                 liveVars, groundVars, cacheVars, researchVars>>

\* time passes
ClockTick ==
  /\ get_clock < MaxClock
  /\ get_clock' = get_clock + 1
  /\ get_last' = FALSE
  /\ UNCHANGED <<get_rec, get_titles, get_job, exceptGet,
                 liveVars, groundVars, cacheVars, researchVars>>

\* a transcript is saved with its title, or the title on YouTube changes
TitleAppears(source, title) ==
  /\ get_titles[source] = ""
  /\ get_titles' = [get_titles EXCEPT ![source] = title]
  /\ get_last' = FALSE
  /\ UNCHANGED <<get_rec, get_job, get_clock, exceptGet,
                 liveVars, groundVars, cacheVars, researchVars>>

\* ----------------------------------------- POST endpoints (web_app.py)
Endpoints ==
  {"/api/analyze", "/api/analyze_store", "/api/ask", "/api/save_transcript",
   "/api/clear_history", "/api/direct_video", "/api/direct_audio",
   "/api/direct_save_server", "/api/live/start", "/api/live/stop",
   "/api/knowledge_juice", "/api/knowledge_juice/start", "/api/component_tests/start",
   "/api/unknown"}

\* what a field of the JSON body holds: nothing, blanks only, a text that
\* is no video id, or a usable value
FieldValues == {"absent", "blank", "text", "abc12345"}
Payloads ==
  [video_id : FieldValues, question : FieldValues \ {"abc12345"},
   url : FieldValues \ {"abc12345"}, topic : FieldValues \ {"abc12345"},
   goal : {"absent", "text"}, analysis : {"absent", "text"}]

NoRequest == [endpoint |-> ""]
NoResponse == [status |-> 0]

InitPost ==
  /\ post_req = NoRequest
  /\ post_resp = NoResponse

\* str(payload.get(field) or "").strip()
Stripped(value) == IF value \in {"absent", "blank"} THEN "" ELSE value

\* _safe_video_id: the value if YT_ID_RE matches it, else ""
_safe_video_id(raw) == IF Stripped(raw) = "abc12345" THEN "abc12345" ELSE ""

\* do_POST: the error of the first required input found missing, "" if none
Mut_MissingInput(endpoint, payload) == ""
MissingInput(endpoint, payload) ==
  LET topic == IF Stripped(payload.topic) # "" THEN Stripped(payload.topic)
               ELSE Stripped(payload.goal)
      url == Stripped(payload.url)
  IN CASE endpoint = "/api/analyze" ->
            IF _safe_video_id(payload.video_id) = "" THEN "video_id is required" ELSE ""
       [] endpoint = "/api/analyze_store" ->
            IF _safe_video_id(payload.video_id) = "" THEN "video_id is required"
            ELSE IF Stripped(payload.analysis) = "" THEN "analysis is required" ELSE ""
       [] endpoint = "/api/ask" ->
            IF _safe_video_id(payload.video_id) = "" THEN "video_id is required"
            ELSE IF Stripped(payload.question) = "" THEN "question is required" ELSE ""
       [] endpoint \in {"/api/save_transcript", "/api/direct_video", "/api/direct_audio",
                        "/api/direct_save_server", "/api/live/start"} ->
            IF url = "" THEN "url is required" ELSE ""
       [] endpoint = "/api/live/stop" ->
            IF Stripped(payload.video_id) = "" THEN "video_id is required" ELSE ""
       [] endpoint \in {"/api/knowledge_juice", "/api/knowledge_juice/start"} ->
            IF topic = "" THEN "topic is required" ELSE ""
       [] OTHER -> ""

\* do_POST for one request: busy - the notes task of the video is running;
\* raises - the backend workflow raises
do_POST(endpoint, payload, busy, raises) ==
  LET error == MissingInput(endpoint, payload)
      skipped == busy /\ endpoint \in {"/api/analyze", "/api/ask"}
  IN /\ post_req = NoRequest
     /\ post_req' = [endpoint |-> endpoint, payload |-> payload]
     /\ post_resp' =
          IF endpoint = "/api/unknown"
            THEN [status |-> 404, ok |-> FALSE, error |-> "Endpoint not found", backend |-> FALSE]
          ELSE IF error # ""
            THEN [status |-> 400, ok |-> FALSE, error |-> error, backend |-> FALSE]
          ELSE IF skipped
            THEN [status |-> 200, ok |-> TRUE, error |-> "", backend |-> FALSE]
          ELSE IF raises
            THEN [status |-> 500, ok |-> FALSE, error |-> "exc", backend |-> TRUE]
          ELSE [status |-> 200, ok |-> TRUE, error |-> "", backend |-> TRUE]
     /\ UNCHANGED <<exceptPost, liveVars, groundVars, cacheVars, researchVars>>

\* ------------------------------------ client profile rotation (ytbot_ytdlp.py)
\* what an attempt can fail with: the tagged errors of _run_once, the error
\* lines the retry test looks for, any other error line ("error"), and
\* YTDLP_FAILED when yt-dlp left no error line
Failures ==
  {"LIVE_STOP_REQUESTED", "LIVE_STUCK_TIMEOUT", "LIVE_BECAME_PRIVATE",
   "antibot", "no_formats", "challenge", "error", "YTDLP_FAILED"}

NoDlCall == [tool |-> "none", state |-> "idle", idx |-> 0, failures |-> <<>>, slept |-> 0]

InitRetry == dl_call = NoDlCall

\* _is_retryable_youtube_access_error
_is_retryable_youtube_access_error(failure) ==
  failure \in {"antibot", "no_formats", "challenge"}

\* ytdlp_download_with_progress lines 477-487 and yt_info line 100: is the
\* failure one that the next client profile is tried for
Retryable(tool, failure) ==
  IF tool = "yt_info" THEN _is_retryable_youtube_access_error(failure)
  ELSE /\ failure \notin {"LIVE_STOP_REQUESTED", "LIVE_STUCK_TIMEOUT", "LIVE_BECAME_PRIVATE"}
       /\ (_is_retryable_youtube_access_error(failure) \/ failure = "YTDLP_FAILED")

\* a call begins with the first client profile
DlCallStart(tool) ==
  /\ dl_call.state # "running"
  /\ dl_call' = [tool |-> tool, state |-> "running", idx |-> 1, failures |-> <<>>, slept |-> 0]
  /\ UNCHANGED <<exceptRetry, liveVars, groundVars, cacheVars, researchVars>>

\* the attempt with client profile idx fails: the next profile is tried
\* after a sleep of 1.2 * idx (yt_info: 2.0 * idx) seconds, or the call raises
DlAttemptFails(failure) ==
  /\ dl_call.state = "running"
  /\ dl_call.tool = "yt_info" =>
       failure \in {"antibot", "no_formats", "challenge", "error"}
  /\ dl_call' =
       IF ShouldRetry(dl_call.idx, Retryable(dl_call.tool, failure))
         THEN [dl_call EXCEPT !.idx = @ + 1, !.failures = Append(@, failure),
                              !.slept = @ + (IF dl_call.tool = "yt_info" THEN 20 ELSE 12) * dl_call.idx]
         ELSE [dl_call EXCEPT !.state = "raised", !.failures = Append(@, failure)]
  /\ UNCHANGED <<exceptRetry, liveVars, groundVars, cacheVars, researchVars>>

\* the attempt succeeds: the call returns
DlAttemptSucceeds ==
  /\ dl_call.state = "running"
  /\ dl_call' = [dl_call EXCEPT !.state = "returned"]
  /\ UNCHANGED <<exceptRetry, liveVars, groundVars, cacheVars, researchVars>>

\* ------------------------------------ session classification (ytbot_utils.py)
\* SESSION_SPLIT_HOUR is int(os.environ.get("SESSION_SPLIT_HOUR", "17")): the
\* default, and other values a deployment can set, the ends of the day and
\* values outside it included
SESSION_SPLIT_HOUR == 17

SplitHours == {0 - 1, 0, 12, SESSION_SPLIT_HOUR, 23, 24}

\* the fields of a valid datetime that the minutes can carry past the hour
Hours == 0..23

Minutes == {0, 59}

SERVICE_LABELS == [slot_1 |-> "Session 1", slot_2 |-> "Session 2"]

NoSvcCall == [called |-> FALSE, split |-> SESSION_SPLIT_HOUR, hour |-> 0, minute |-> 0, result |-> <<>>]

InitService == svc_call = NoSvcCall

Mut_classify_service_by_start(split, hour) ==
  IF hour > split THEN <<"slot_2", SERVICE_LABELS["slot_2"]>>
  ELSE <<"slot_1", SERVICE_LABELS["slot_1"]>>

classify_service_by_start(split, hour) ==
  IF hour >= split THEN <<"slot_2", SERVICE_LABELS["slot_2"]>>
  ELSE <<"slot_1", SERVICE_LABELS["slot_1"]>>

\* a recording that started at hour:minute local time is classified
ClassifyService(split, hour, minute) ==
  /\ ~svc_call.called
  /\ svc_call' = [called |-> TRUE, split |-> split, hour |-> hour, minute |-> minute,
                  result |-> classify_service_by_start(split, hour)]
  /\ UNCHANGED <<exceptService, liveVars, groundVars, cacheVars, researchVars>>

\* ------------------------------------ Claude rate limiter (video_notes.py)
NThreads == 3

\* what VIDEO_CLAUDE_RPM is set to
ConfiguredRpm == 2

\* the clock moves in steps of TickSec seconds up to MaxTime
TickSec == 20

MaxTime == 80

window_sec == 60

Threads == 1..NThreads

\* line 106: rpm = max(1, min(120, _env_int("VIDEO_CLAUDE_RPM", 5)))
rpm == IF Min(120, ConfiguredRpm) < 1 THEN 1 ELSE Min(120, ConfiguredRpm)

InitRate ==
  /\ rl_clock = 0
  /\ rl_times = <<>>
  /\ rl_threads = [t \in Threads |-> [pc |-> "idle", now |-> 0, wake |-> 0]]
  /\ rl_grants = <<>>

\* lines 112-113: drop the times at the head that are a window old
RECURSIVE Expire(_, _)
Expire(times, now) ==
  IF times # <<>> /\ now - Head(times) >= window_sec
    THEN Expire(Tail(times), now)
    ELSE times

\* time passes; a thread that has read the clock and stands before the lock
\* is overtaken by one step of the clock at most
RateTick ==
  /\ rl_clock + TickSec <= MaxTime
  /\ \A t \in Threads : rl_threads[t].pc = "lock" => rl_threads[t].now = rl_clock
  /\ rl_clock' = rl_clock + TickSec
  /\ UNCHANGED <<rl_times, rl_threads, rl_grants, exceptRate, liveVars, groundVars, cacheVars, researchVars>>

\* lines 108-110, at a call and after each sleep: now = time.time(), read
\* before _CLAUDE_RATE_LOCK is taken
ReadNow(t) ==
  /\ \/ rl_threads[t].pc = "idle"
     \/ rl_threads[t].pc = "sleep" /\ rl_clock >= rl_threads[t].wake
  /\ rl_threads' = [rl_threads EXCEPT ![t] = [pc |-> "lock", now |-> rl_clock, wake |-> 0]]
  /\ UNCHANGED <<rl_clock, rl_times, rl_grants, exceptRate, liveVars, groundVars, cacheVars, researchVars>>

\* lines 111-118: the critical section, with the now read before it: the
\* slot is taken and the call returns, or the thread sleeps wait_sec (the
\* 0.01 s of margin is below the clock's step)
TakeSlot(t) ==
  LET now == rl_threads[t].now
      times == Expire(rl_times, now)
  IN /\ rl_threads[t].pc = "lock"
     /\ IF Len(times) < rpm
          THEN /\ rl_times' = Append(times, now)
               /\ rl_grants' = Append(rl_grants, rl_clock)
               /\ rl_threads' = [rl_threads EXCEPT ![t] = [pc |-> "idle", now |-> 0, wake |-> 0]]
          ELSE /\ rl_times' = times
               /\ UNCHANGED rl_grants
               /\ rl_threads' = [rl_threads EXCEPT ![t] =
                    [pc |-> "sleep", now |-> 0,
                     wake |-> rl_clock + window_sec - (now - Head(times))]]
     /\ UNCHANGED <<rl_clock, exceptRate, liveVars, groundVars, cacheVars, researchVars>>

\* ------------------------------------ the archive index table (state_store/core.py)
NIdxVids == 2

NIdxWorkers == 2

MaxDerived == 2

IdxVids == 1..NIdxVids

IdxWorkers == 1..NIdxWorkers

\* a record carries the updates made to it, named by the workflow that made them
NoRecord == [present |-> FALSE, updates |-> {}]

NoDerived == [chunks |-> 0, chunk_embeddings |-> 0, video_embedding |-> FALSE]

IdleIdx == [pc |-> "idle", kind |-> "none", vid |-> 0, idx |-> <<>>]

\* every video has its record; nothing derived is stored yet
InitIndex ==
  /\ db_archive_index = [v \in IdxVids |-> [present |-> TRUE, updates |-> {}]]
  /\ db_derived = [v \in IdxVids |-> NoDerived]
  /\ idx_workers = [w \in IdxWorkers |-> IdleIdx]

\* lines 205-236: video_embeddings, transcript_chunks and
\* transcript_chunk_embeddings REFERENCE archive_index(video_id) ON DELETE
\* CASCADE: deleting a row of archive_index deletes the video's rows there
OnDeleteCascade(derived, deleted) ==
  [v \in IdxVids |-> IF v \in deleted THEN NoDerived ELSE derived[v]]

\* save_index, lines 396-409: one transaction that deletes every row of
\* archive_index and inserts the rows of the caller's dict
save_index(index) ==
  /\ db_derived' = OnDeleteCascade(db_derived, {v \in IdxVids : db_archive_index[v].present})
  /\ db_archive_index' = index

\* a workflow reads the whole index: a recording about to write its status
\* (live_flow.py 553), a question being answered (web_app.py 1659), the
\* retention cleanup (maintenance.py 15)
IndexLoad(w, kind, v) ==
  /\ idx_workers[w].pc = "idle"
  /\ idx_workers' = [idx_workers EXCEPT ![w] =
       [pc |-> "loaded", kind |-> kind, vid |-> v, idx |-> db_archive_index]]
  /\ UNCHANGED <<db_archive_index, db_derived, exceptIndex, liveVars, groundVars, cacheVars, researchVars>>

\* the workflow changes its video's record in its copy and saves the copy
\* (live_flow.py 554-555, web_app.py 1716-1717, maintenance.py 67-69)
IndexSave(w) ==
  LET st == idx_workers[w]
      mine == IF st.kind = "cleanup" THEN NoRecord
              ELSE [present |-> TRUE, updates |-> st.idx[st.vid].updates \cup {w}]
  IN /\ st.pc = "loaded"
     /\ save_index([st.idx EXCEPT ![st.vid] = mine])
     /\ idx_workers' = [idx_workers EXCEPT ![w] = [st EXCEPT !.pc = "done", !.idx = <<>>]]
     /\ UNCHANGED <<exceptIndex, liveVars, groundVars, cacheVars, researchVars>>

\* save_transcript_chunks, save_transcript_chunk_embeddings and the video
\* embedding of a video whose record exists (the foreign key refuses others)
SaveDerived(v, n, m, e) ==
  /\ db_archive_index[v].present
  /\ db_derived[v] = NoDerived
  /\ m <= n
  /\ db_derived' = [db_derived EXCEPT ![v] =
       [chunks |-> n, chunk_embeddings |-> m, video_embedding |-> e]]
  /\ UNCHANGED <<db_archive_index, idx_workers, exceptIndex, liveVars, groundVars, cacheVars, researchVars>>

\* ------------------------------------ starting component tests (web_app.py)
NComponents == 2

NStartReqs == 3

MaxCtJobs == 2

Components == 1..NComponents

StartReqs == 1..NStartReqs

IdleStart == [pc |-> "idle", component |-> 0, returned |-> 0]

InitCompStart ==
  /\ ct_jobs = <<>>
  /\ ct_reqs = [r \in StartReqs |-> IdleStart]

\* _find_active_component_job: the newest job of the component that is
\* queued or running (its place in the table), 0 for None
_find_active_component_job(jobs, comp) ==
  LET active == {j \in 1..Len(jobs) :
                   jobs[j].status \in {"queued", "running"} /\ jobs[j].component = comp}
  IN IF active = {} THEN 0 ELSE CHOOSE j \in active : \A k \in active : k <= j

\* _start_component_tests_job lines 480-483: the look-up, under the lock it
\* releases before returning; an active job is returned
ComponentStartFind(r, comp) ==
  LET active == _find_active_component_job(ct_jobs, comp)
  IN /\ ct_reqs[r].pc = "idle"
     /\ Len(ct_jobs) < MaxCtJobs
     /\ ct_reqs' = [ct_reqs EXCEPT ![r] =
          IF active # 0 THEN [pc |-> "done", component |-> comp, returned |-> active]
          ELSE [pc |-> "create", component |-> comp, returned |-> 0]]
     /\ UNCHANGED <<ct_jobs, exceptCompStart, liveVars, groundVars, cacheVars, researchVars>>

\* lines 485-529: the tests are discovered, the job is built and put in the
\* table under the lock, taken anew
ComponentStartInsert(r) ==
  /\ ct_reqs[r].pc = "create"
  /\ ct_jobs' = Append(ct_jobs, [component |-> ct_reqs[r].component, status |-> "queued"])
  /\ ct_reqs' = [ct_reqs EXCEPT ![r] = [@ EXCEPT !.pc = "done", !.returned = Len(ct_jobs) + 1]]
  /\ UNCHANGED <<exceptCompStart, liveVars, groundVars, cacheVars, researchVars>>

\* the response is sent; the thread serves its next request
ComponentStartReturn(r) ==
  /\ ct_reqs[r].pc = "done"
  /\ ct_reqs' = [ct_reqs EXCEPT ![r] = IdleStart]
  /\ UNCHANGED <<ct_jobs, exceptCompStart, liveVars, groundVars, cacheVars, researchVars>>

\* the runner thread of a job: running, then finished
ComponentRunnerStep(j) ==
  /\ j \in 1..Len(ct_jobs)
  /\ ct_jobs[j].status \in {"queued", "running"}
  /\ ct_jobs' = [ct_jobs EXCEPT ![j].status = IF @ = "queued" THEN "running" ELSE "passed"]
  /\ UNCHANGED <<ct_reqs, exceptCompStart, liveVars, groundVars, cacheVars, researchVars>>

\* every part at rest
InitSpecLive == InitLive /\ GroundIdle /\ InitCache /\ InitResearch /\ InitNotes /\ InitHub
  /\ InitSnap
  /\ InitJobs
  /\ InitTranscript
  /\ InitEmb
  /\ InitTopics
  /\ InitGet
  /\ InitPost
  /\ InitRetry
  /\ InitService
  /\ InitRate
  /\ InitIndex
  /\ InitCompStart

\* a transcript is at hand, every other part at rest
InitSpecGround == InitLive /\ InitGround /\ InitCache /\ InitResearch /\ InitNotes /\ InitHub
  /\ InitSnap
  /\ InitJobs
  /\ InitTranscript
  /\ InitEmb
  /\ InitTopics
  /\ InitGet
  /\ InitPost
  /\ InitRetry
  /\ InitService
  /\ InitRate
  /\ InitIndex
  /\ InitCompStart

\* the bot process serving Telegram chats
NextLive ==
  \/ \E f \in Flows : Start(f)
  \/ \E f \in Flows : FlowStep(f)
  \/ \E f \in Flows : ReplayRun(f)
  \/ \E f \in Flows : ReplayCleanup(f)
  \/ \E v \in Vids : StopRequest(v)

SpecLive == InitSpecLive /\ [][NextLive]_vars

\* the same process serving the web API
NextWeb ==
  \/ \E f \in Flows : WebStart(f)
  \/ \E f \in Flows : FlowStep(f)
  \/ \E f \in Flows : WebPoll(f)
  \/ \E f \in Flows : WebDeadline(f)
  \/ \E f \in Flows : ReplayFinalize(f)

SpecWeb == InitSpecLive /\ [][NextWeb]_vars

\* questions about a transcript
NextGround ==
  \/ AnswerQuestion
  \/ NextQuestion

SpecGround == InitSpecGround /\ [][NextGround]_vars

\* the Q&A endpoint of the web API and the transcript writer
NextCache ==
  \/ \E r \in QaRuns : RunQaLookup(r)
  \/ \E r \in QaRuns : RunQaAnswer(r)
  \/ \E r \in QaRuns : RunQaReturn(r)
  \/ ModifyTranscript

SpecCache == InitSpecLive /\ [][NextCache]_vars

\* research runs, one after the other
NextResearch ==
  \/ StartBrewJob
  \/ BrewRunnerBegin
  \/ BrewRunnerFinish
  \/ ResearchStart
  \/ ResearchIntent
  \/ ResearchQueries
  \/ ResearchCollect
  \/ ResearchVideo
  \/ ResearchCompare
  \/ ResearchDeliver
  \/ ResearchAgain

SpecResearch == InitSpecLive /\ [][NextResearch]_vars

\* the notes endpoints of the web API
NextNotes ==
  \/ \E r \in Reqs : NotesPost(r)
  \/ \E r \in Reqs : NotesProgress(r)
  \/ \E r \in Reqs : NotesFinish(r)
  \/ \E r \in Reqs : NotesNext(r)

SpecNotes == InitSpecLive /\ [][NextNotes]_vars

\* the WebSocket hub, its subscribers and the publishers
NextHub ==
  \/ \E c \in Clients : WsConnect(c)
  \/ Broadcast
  \/ HubRun
  \/ \E c \in Clients : ClientPauses(c)
  \/ \E c \in Clients, closed \in BOOLEAN : ClientResumes(c, closed)
  \/ \E c \in Clients : WsHandlerExit(c)

SpecHub == InitSpecLive /\ [][NextHub]_vars

\* a brew job or a component test job and its snapshots
NextSnap ==
  \/ StartDeckBrewJob
  \/ \E n \in 1..MaxVideosCap : CandidatesReady(n)
  \/ VideoProcessed
  \/ \E n \in {1, _COMPONENT_TEST_CASE_LIMIT, MaxTestIds} : StartComponentJob(n)
  \/ _append_component_test_log

SpecSnap == InitSpecLive /\ [][NextSnap]_vars

\* the job tables of the web API; every request and runner gets its turn
NextJobs ==
  \/ \E r \in CompReqs : CompJobStart(r)
  \/ \E r \in CompReqs : CompJobTrim(r)
  \/ \E j \in BrewIds : BrewTableStart(j)
  \/ \E j \in BrewIds : BrewTableRun(j)
  \/ \E j \in BrewIds, status \in {"completed", "failed"} : BrewTableFinish(j, status)

SpecJobs == InitSpecLive /\ [][NextJobs]_vars /\ WF_vars(NextJobs)

\* the workflows that save the transcript of a video
NextTranscript ==
  \/ \E force \in BOOLEAN : SaveTranscript(force)
  \/ \E force \in BOOLEAN : SaveTranscriptFails(force)
  \/ \E written \in BOOLEAN : ResearchSavesTranscript(written)
  \/ NotesLooksUp
  \/ NotesSavesTranscript

SpecTranscript == InitSpecLive /\ [][NextTranscript]_vars

\* questions asked about the transcripts of a video, one call at a time
NextEmb ==
  \E t \in Transcripts, meta_raises, embed_ok \in BOOLEAN, empty \in 0..MaxEmpty :
    SemanticChunkScores(t, meta_raises, embed_ok, empty)

SpecEmb == InitSpecLive /\ [][NextEmb]_vars

\* topics of one research run saved and loaded
NextTopics ==
  \/ \E topics \in TopicLists : save_research_topics(topics)
  \/ LoadTopics

SpecTopics == InitSpecLive /\ [][NextTopics]_vars

\* GET requests of the web API and what goes on beside them
NextGet ==
  \/ _video_detail
  \/ _list_component_test_jobs
  \/ ComponentRunnerUpdates
  \/ ClockTick
  \/ \E source \in {"transcript", "remote"}, title \in Titles \ {""} : TitleAppears(source, title)

SpecGet == InitSpecLive /\ [][NextGet]_vars

\* one POST request with any body
NextPost ==
  \E endpoint \in Endpoints, payload \in Payloads, busy, raises \in BOOLEAN :
    do_POST(endpoint, payload, busy, raises)

SpecPost == InitSpecLive /\ [][NextPost]_vars

\* calls of the downloader and of yt_info, one after the other
NextRetry ==
  \/ \E tool \in {"download", "yt_info"} : DlCallStart(tool)
  \/ \E failure \in Failures : DlAttemptFails(failure)
  \/ DlAttemptSucceeds

SpecRetry == InitSpecLive /\ [][NextRetry]_vars

\* one classification of one start time under one configuration
NextService ==
  \E split \in SplitHours, hour \in Hours, minute \in Minutes : ClassifyService(split, hour, minute)

SpecService == InitSpecLive /\ [][NextService]_vars

\* worker threads asking for a Claude slot while time passes
NextRate ==
  \/ RateTick
  \/ \E t \in Threads : ReadNow(t)
  \/ \E t \in Threads : TakeSlot(t)

SpecRate == InitSpecLive /\ [][NextRate]_vars

\* workflows reading and saving the index, and the transcript store
NextIndex ==
  \/ \E w \in IdxWorkers, kind \in {"status", "qa", "cleanup"}, v \in IdxVids : IndexLoad(w, kind, v)
  \/ \E w \in IdxWorkers : IndexSave(w)
  \/ \E v \in IdxVids, n \in 1..MaxDerived, m \in 0..MaxDerived, e \in BOOLEAN :
       SaveDerived(v, n, m, e)

SpecIndex == InitSpecLive /\ [][NextIndex]_vars

\* request threads starting component tests, and the runner threads
NextCompStart ==
  \/ \E r \in StartReqs, comp \in Components : ComponentStartFind(r, comp)
  \/ \E r \in StartReqs : ComponentStartInsert(r)
  \/ \E r \in StartReqs : ComponentStartReturn(r)
  \/ \E j \in 1..(MaxCtJobs + NStartReqs) : ComponentRunnerStep(j)

SpecCompStart == InitSpecLive /\ [][NextCompStart]_vars

\* recordings started from the bot and from web request threads, with their
\* replay tasks.  The bot's event loop runs every task it holds; nothing in
\* the code runs a task left on a closed web loop, whose clean-up is the
\* garbage collector's
NextReplay ==
  \/ \E f \in Flows : Start(f)
  \/ \E f \in Flows : WebStart(f)
  \/ \E f \in Flows : FlowStep(f)
  \/ \E f \in Flows : ReplayRun(f)
  \/ \E f \in Flows : ReplayCleanup(f)
  \/ \E f \in Flows : ReplayFinalize(f)

SpecReplay ==
  /\ InitSpecLive
  /\ [][NextReplay]_vars
  /\ \A f \in Flows : WF_vars(ReplayRun(f)) /\ WF_vars(ReplayCleanup(f))

\* ---------------------------------------------- properties: live recording

\* C1: for every video id, at any instant, at most one downloader worker of a
\* LIVE recording of that video is active
C1_SingleFlight ==
  \A v \in Vids :
    Cardinality({f \in Flows : flows[f].vid = v /\ flows[f].kind = "live"
                                 /\ flows[f].pc = "poll"}) <= 1

\* C2: two concurrent start_live_recording calls for the same video id, both
\* finding the stream live, that both report started or already_running
\* report one of each
C2_OneStartedOneAlready ==
  \A f, g \in Flows :
    (/\ f # g
     /\ flows[f].origin = "web" /\ flows[g].origin = "web"
     /\ flows[f].vid = flows[g].vid
     /\ flows[f].kind = "live" /\ flows[g].kind = "live"
     /\ flows[f].conc /\ flows[g].conc
     /\ flows[f].webStatus \in {"started", "already_running"}
     /\ flows[g].webStatus \in {"started", "already_running"})
    => flows[f].webStatus # flows[g].webStatus

\* C3: when a recording worker returns (no other flow being at work on the
\* same video), the record's status is saved, partial, stopped or failed and
\* ActiveLives has no entry for the video
C3_TerminalStatus ==
  [][\A f \in Flows :
       (/\ flows[f].pc \in {"h2", "sched"} /\ flows'[f].pc = "done"
        /\ IsLive(flows[f].kind)
        /\ \A g \in Flows \ {f} :
              flows[g].vid = flows[f].vid => flows[g].pc \in {"idle", "done"})
       => /\ archive_index'[flows[f].vid] \in {"saved", "partial", "stopped", "failed"}
          /\ flows[f].vid \notin active_lives']_vars

\* C4: once a stop request was accepted for a recording and its downloader has
\* polled the stop bit since, the downloader has raised LIVE_STOP_REQUESTED
C4_StopObserved ==
  \A f \in Flows :
    flows[f].stopState = "polled" => flows[f].reason = "LIVE_STOP_REQUESTED"

\* C5: when a recording that ended with LIVE_STUCK_TIMEOUT returns (no other
\* flow being at work on the same video), the record's status is partial
C5_StuckPartial ==
  [][\A f \in Flows :
       (/\ flows[f].pc \in {"h2", "sched"} /\ flows'[f].pc = "done"
        /\ flows[f].reason = "LIVE_STUCK_TIMEOUT"
        /\ \A g \in Flows \ {f} :
              flows[g].vid = flows[f].vid => flows[g].pc \in {"idle", "done"})
       => archive_index'[flows[f].vid] = "partial"]_vars

\* C6: a flow whose probes all answer "upcoming" stops waiting only when
\* UPCOMING_WAIT_SEC have passed, and at most one probe and one sleep later;
\* it then reports "Timed out" and returns, and from its start to its return
\* it has written no archive record, no ActiveLives entry, and started no
\* replay or notes task
C6_UpcomingTimeout ==
  /\ [](\A f \in Flows : flows[f].pc = "wait" =>
          /\ flows[f].kind = "none"
          /\ flows[f].waited <= UPCOMING_WAIT_SEC + MaxProbeDelay + UPCOMING_POLL_SEC)
  /\ [][\A f \in Flows :
         /\ (flows[f].pc = "wait" /\ flows'[f].pc = "done") =>
               /\ flows[f].waited >= UPCOMING_WAIT_SEC
               /\ flows'[f].outcome = "timed_out"
               /\ flows'[f].task = "none"
               /\ ~NotesSpawned(flows'[f])
         /\ (flows[f].pc \in {"idle", "wait"} /\ flows'[f].pc \in {"wait", "done"}
               /\ flows'[f] # flows[f]) =>
               /\ archive_index' = archive_index
               /\ active_lives' = active_lives
               /\ replay_tasks' = replay_tasks]_vars

\* C6 witness: a flow has returned after the upcoming wait ran out
C6_Witness ==
  \E f \in Flows : flows[f].pc = "done" /\ flows[f].outcome = "timed_out"

\* C7: for each video id at most one replay task exists at any time, and its
\* id is then in replay_tasks; a schedule call made while the id is registered
\* creates no task
C7_OneReplayTask ==
  \A v \in Vids :
    LET tasks == {f \in Flows : flows[f].vid = v
                                 /\ flows[f].task \in {"pending", "cleanup", "abandoned"}}
    IN /\ Cardinality(tasks) <= 1
       /\ tasks # {} => v \in replay_tasks

\* C7 witness: a task is registered for a video and a second schedule call
\* for the same video has returned without creating one
C7_Witness ==
  \E f, g \in Flows :
    /\ flows[f].vid = flows[g].vid
    /\ flows[f].task = "pending" /\ flows[g].task = "skipped"

\* ------------------------------------------------- properties: questions

\* C8: a model reply accepted as the answer has an evidence line of its own
\* that verifies against the transcript
C8_AnsweredIsVerified ==
  qa_answer.kind = "answered" =>
    _verify_evidence_lines(CleanEvidence(reply.evidence), transcript, EvidenceLimit) # <<>>

\* C9: a cache hit returns a row whose question key and transcript stamp
\* equal those of the call, and whose answer was made from the content the
\* transcript file had when the call took the stamp
C9_CacheFresh ==
  \A r \in QaRuns :
    (qa_runs[r].pc = "done" /\ qa_runs[r].cached) =>
      /\ qa_runs[r].row.question_key = _question_cache_key(qa_runs[r].question)
      /\ qa_runs[r].row.transcript_stamp = qa_runs[r].transcript_stamp
      /\ qa_runs[r].row.answer[2] = qa_runs[r].content_at_stamp

\* C9 witness: a hit on a modified transcript while the cache also holds an
\* answer to the same question made from earlier content
C9_Witness ==
  \E r \in QaRuns :
    /\ qa_runs[r].pc = "done" /\ qa_runs[r].cached
    /\ qa_runs[r].content_at_stamp > 0
    /\ \E i \in 1..Len(video_qa_cache) :
         /\ video_qa_cache[i].question_key = _question_cache_key(qa_runs[r].question)
         /\ video_qa_cache[i].answer[2] < qa_runs[r].content_at_stamp

\* ------------------------------------------------- properties: research

C11_JobCompleteness ==
  brew.pc = "done" =>
    /\ brew_job.status \in {"completed", "failed"}
    /\ brew_job.ratio = FullRatio
    /\ progress_events # <<>>
    /\ progress_events[Len(progress_events)].ratio = FullRatio
    /\ brew_job.status = "failed" => brew_job.error # ""

\* C11 witness: a job has ended as failed after the analysis of a video
\* raised
C11_Witness ==
  /\ brew.pc = "done" /\ brew_job.status = "failed"
  /\ research.error = "extract_video_facts"
  /\ brew_job.error = "extract_video_facts"

\* C12: when a brew job's run has chosen n videos, found a transcript for
\* each and completed, the events handed to on_progress are exactly
\* started, queries_ready, candidates_ready (total n), then for i = 1..n
\* processing_video (i of n) and video_processed (i of n), then comparing,
\* then completed with ratio 1.0; in a persisting run the completed event
\* carries the run's id and the persisted run has status completed
C12_HappyPathEvents ==
  (research.caller = "brew" /\ research.completed /\ ~research.skipped) =>
    LET n == research.total
        ev == progress_events
    IN /\ Len(ev) = 2 * n + 5
       /\ ev[1].event_type = "started"
       /\ ev[2].event_type = "queries_ready"
       /\ ev[3].event_type = "candidates_ready" /\ ev[3].total_videos = n
       /\ \A i \in 1..n :
            /\ ev[2 + 2 * i].event_type = "processing_video"
            /\ ev[3 + 2 * i].event_type = "video_processed"
            /\ ev[2 + 2 * i].current_index = i /\ ev[2 + 2 * i].total_videos = n
            /\ ev[3 + 2 * i].current_index = i /\ ev[3 + 2 * i].total_videos = n
       /\ ev[2 * n + 4].event_type = "comparing"
       /\ ev[2 * n + 5].event_type = "completed"
       /\ ev[2 * n + 5].ratio = FullRatio
       /\ research.persist =>
            /\ ev[2 * n + 5].run_id # 0
            /\ research_runs[ev[2 * n + 5].run_id].status = "completed"

\* C12 witness: a persisting brew run of two videos, none skipped, has
\* returned after completing
C12_Witness ==
  /\ research.caller = "brew" /\ research.completed /\ ~research.skipped
  /\ research.persist /\ research.total = 2 /\ research.pc = "ended"

\* C13: no step of a private invocation (persist false) writes a research
\* run, a research video, transcript, fact or topic row or a transcript
\* file; and a private invocation that returned without an error has
\* driven the pipeline to its end and handed the report to its caller
C13_PrivateNotPersisted ==
  /\ []((research.pc = "ended" /\ ~research.persist /\ research.error = "") =>
          (research.completed /\ research.reported))
  /\ []((brew.pc = "done" /\ brew.private_run /\ brew_job.status = "completed") =>
          (brew_job.report_text /\ brew_job.run_id = 0))
  /\ [][(research'.caller # "none" /\ ~research'.persist) =>
          (research_runs' = research_runs /\ research_rows' = research_rows)]_vars

\* C13 witness: a private invocation has processed its videos, completed
\* and returned
C13_Witness ==
  /\ research.pc = "ended" /\ ~research.persist /\ research.error = ""
  /\ research.total > 0 /\ ~research.skipped /\ research.reported

\* C14: for every key (video_id, kind) at most one request is running the
\* workflow, holding the key; and a request that arrives is let in exactly
\* when the key was absent, so every other caller is refused until the key
\* is released
C14_NotesSingleFlight ==
  /\ [](\A key \in Vids \X NoteKinds :
          Cardinality({r \in Reqs : notes_reqs[r].pc = "work" /\ notes_reqs[r].key = key}) <= 1)
  /\ [][\A r \in Reqs :
          (notes_reqs[r].pc = "idle" /\ notes_reqs'[r].pc # "idle") =>
            /\ notes_reqs'[r].key \in notes_task_active'
            /\ notes_reqs'[r].started <=> (notes_reqs'[r].key \notin notes_task_active)]_vars

\* C14 witness: one request runs the workflow for a key while two others
\* for the same key have been refused
C14_Witness ==
  \E r \in Reqs :
    /\ notes_reqs[r].pc = "work"
    /\ \A q \in Reqs \ {r} :
         /\ notes_reqs[q].pc = "answered" /\ ~notes_reqs[q].started
         /\ notes_reqs[q].key = notes_reqs[r].key

\* C15: a key is in the active set only while some request is running the
\* workflow for it: the key is released when the work returns and when it
\* raises, so no later request is refused because of a task that has ended
C15_NotesKeyReleased ==
  /\ [](\A key \in notes_task_active :
          \E r \in Reqs : notes_reqs[r].pc = "work" /\ notes_reqs[r].key = key)
  /\ [][\A r \in Reqs :
          (notes_reqs[r].pc = "work" /\ notes_reqs'[r].pc # "work") =>
            notes_reqs[r].key \notin notes_task_active']_vars

\* C15 witness: the work of one request raised, and a later request for
\* the same key has been let in
C15_Witness ==
  \E r, q \in Reqs :
    /\ notes_reqs[r].pc = "answered" /\ notes_reqs[r].raised
    /\ notes_reqs[q].pc = "work" /\ notes_reqs[q].key = notes_reqs[r].key

\* C16: a request that was refused is answered HTTP 200, ok, status
\* already_running, in_progress, with the progress row of the video as it
\* was when the request arrived (shown as running, not done), and the
\* workflow is not invoked for it
C16_AlreadyRunningResponse ==
  [][\A r \in Reqs :
       (notes_reqs[r].pc = "idle" /\ notes_reqs'[r].pc # "idle"
          /\ notes_reqs'[r].key \in notes_task_active) =>
         /\ notes_reqs'[r].pc = "answered"
         /\ ~notes_reqs'[r].started
         /\ notes_reqs'[r].response.http = 200
         /\ notes_reqs'[r].response.ok
         /\ notes_reqs'[r].response.status = "already_running"
         /\ notes_reqs'[r].response.in_progress
         /\ notes_reqs'[r].response.item =
              ProgressRow(notes_progress[notes_reqs'[r].key].phase, "running", FALSE)
         /\ notes_progress' = notes_progress]_vars

\* C16 witness: a request was refused while the workflow of another had
\* already written progress
C16_Witness ==
  \E r \in Reqs :
    /\ notes_reqs[r].pc = "answered" /\ ~notes_reqs[r].started
    /\ notes_reqs[r].response.status = "already_running"
    /\ notes_reqs[r].response.item.phase = MaxPhase

\* C17: the events handed to a subscriber's connection are in publish
\* order (the successive snapshots of a job are numbered in the order of
\* the mutations that produced them)
C17_PublishOrder ==
  \A c \in Clients :
    \A i, j \in 1..Len(ws_conns[c].frames) :
      (i < j /\ ws_conns[c].frames[i] # Hello) =>
        ws_conns[c].frames[i] < ws_conns[c].frames[j]

\* C18: the first frame handed to a subscriber's connection is its
\* greeting
C18_HelloFirst ==
  \A c \in Clients :
    ws_conns[c].frames # <<>> => ws_conns[c].frames[1] = Hello

\* C18 witness: a subscriber connected while events were being published
\* and has since been handed an event
C18_Witness ==
  \E c \in Clients :
    /\ Len(ws_conns[c].frames) >= 2
    /\ ws_conns[c].frames[2] > 1

\* C19: a subscriber on which a broadcast had to wait (a slow one) or
\* whose send failed is out of the subscriber set once that broadcast has
\* run to its end
C19_SlowOrFailedDropped ==
  [][\A e \in Events :
       (ws_tasks[e].pc # "done" /\ ws_tasks'[e].pc = "done") =>
         \A c \in Clients :
           ((ws_conns[c].waited /\ e \in {ws_conns[c].frames[i] : i \in 1..Len(ws_conns[c].frames)})
              \/ c \in ws_tasks'[e].bad) => c \notin ws_clients']_vars

\* C20: every job snapshot has bounded lists: at most 24 candidate videos, at
\* most 60 reviewed videos that are the most recently reviewed ones, a log
\* tail of at most 220 lines and at most 400 test case rows
C20_SnapshotBounds ==
  /\ deck_job.kind = "brew" =>
       LET snap == _job_snapshot(deck_job)
           k == Len(snap.reviewed_videos)
       IN /\ Len(snap.candidate_videos) <= 24
          /\ k <= 60
          /\ deck_job.current_index > 0 => k > 0
          /\ \A j \in 1..k : snap.reviewed_videos[j] = deck_job.current_index - k + j
  /\ deck_job.kind = "component" =>
       LET snap == _component_job_snapshot(deck_job)
       IN /\ Len(snap.log_tail) <= 220
          /\ Len(snap.test_cases) <= 400

\* C21: the job tables are bounded: _COMPONENT_TEST_JOBS never holds more
\* than 24 entries, and a brew job that has ended is evicted from _BREW_JOBS
C21_JobTablesBounded ==
  /\ [](Cardinality(comp_jobs) <= 24)
  /\ \A j \in BrewIds : (brew_table[j] \in {"completed", "failed"}) ~> (brew_table[j] = "none")

\* C22: two calls of save_transcript_from_url(url, force=false) in a row
\* return the same transcript_path, and the second one reports cached=true
\* and does not rewrite the transcript file
C22_TranscriptIdempotence ==
  (tr_prev.returned /\ tr_last.returned /\ ~tr_prev.force /\ ~tr_last.force) =>
    /\ tr_last.transcript_path = tr_prev.transcript_path
    /\ tr_last.cached
    /\ tr_last.version = tr_prev.version

C22_Witness ==
  /\ tr_prev.returned /\ tr_last.returned /\ ~tr_prev.force /\ ~tr_last.force
  /\ ~tr_prev.cached /\ tr_last.cached

\* C23: once a non-empty transcript file exists for a video, no workflow
\* writes that file again
C23_TranscriptWrittenOnce ==
  [][(tr_file.exists /\ tr_file.nonempty) => tr_file' = tr_file]_vars

C25_TopicsExample ==
  (topics_out.loaded
   /\ topics_in = <<[tag |-> 1, weight |-> 2], [tag |-> 1, weight |-> 9], [tag |-> 2, weight |-> 5]>>)
  => topics_out.topics = <<[tag |-> 1, weight |-> 9], [tag |-> 2, weight |-> 5]>>

\* C26: handling a GET request never changes the persisted archive index
\* nor the contents of a job-table entry
C26_GetHasNoSideEffects ==
  [][get_last' => (get_rec' = get_rec /\ get_job' = get_job)]_vars

\* C27: a POST request that lacks a required input of its endpoint
\* (video_id, question, url, topic) is answered with HTTP 400 and
\* {ok: false, error}, and its backend workflow is not invoked.  A topic
\* may be given as `goal`
C27_PostValidatesInputs ==
  LET e == post_req.endpoint
      lacks(f) == post_req.payload[f] \in {"absent", "blank"}
      missing ==
        \/ e \in {"/api/analyze", "/api/analyze_store", "/api/ask", "/api/live/stop"}
             /\ lacks("video_id")
        \/ e = "/api/ask" /\ lacks("question")
        \/ e \in {"/api/save_transcript", "/api/direct_video", "/api/direct_audio",
                  "/api/direct_save_server", "/api/live/start"} /\ lacks("url")
        \/ e \in {"/api/knowledge_juice", "/api/knowledge_juice/start"}
             /\ lacks("topic") /\ lacks("goal")
  IN (post_req # NoRequest /\ missing) =>
       /\ post_resp.status = 400
       /\ ~post_resp.ok /\ post_resp.error # ""
       /\ ~post_resp.backend

C27_Witness ==
  /\ post_req # NoRequest /\ post_req.endpoint = "/api/ask"
  /\ post_req.payload.video_id = "abc12345" /\ post_req.payload.question = "blank"
  /\ post_resp.status = 400

\* C28: the downloader tries the next client profile only after a failure
\* that is anti-bot blocking (a "confirm you're not a bot" or "challenge
\* solving failed" error) or "no formats found"; every other failure is
\* raised without another attempt
C28_RetryOnlyOnBlocked ==
  [][(dl_call.state = "running" /\ dl_call'.state = "running" /\ dl_call'.idx = dl_call.idx + 1)
       => dl_call'.failures[Len(dl_call'.failures)] \in {"antibot", "challenge", "no_formats"}]_vars

\* C29: for every valid datetime, classify_service_by_start returns slot_1
\* if and only if the hour is below SESSION_SPLIT_HOUR, and slot_2 otherwise
C29_SlotBySplitHour ==
  svc_call.called =>
    /\ svc_call.result[1] \in {"slot_1", "slot_2"}
    /\ (svc_call.result[1] = "slot_1") <=> (svc_call.hour < svc_call.split)

\* a start in the split hour itself, in its last minute, under the default
C29_Witness ==
  /\ svc_call.called
  /\ svc_call.split = SESSION_SPLIT_HOUR
  /\ svc_call.hour = SESSION_SPLIT_HOUR
  /\ svc_call.minute = 59
  /\ svc_call.result[1] = "slot_2"

\* C30: for a LIVE recording that has registered (no other flow being at work
\* on the same video), at every instant a final status in the record means
\* the ActiveLives entry is gone, and a missing ActiveLives entry means the
\* status is no longer `recording`: the entry is removed in the critical
\* section that writes the final status
C30_ClearedWithFinalStatus ==
  \A f \in Flows :
    (/\ flows[f].kind = "live"
     /\ \/ flows[f].pc \in {"poll", "h1", "h2", "sched"}
        \/ /\ flows[f].pc = "done"
           /\ flows[f].outcome \in {"saved", "stopped", "stuck", "private", "nofile", "failed"}
     /\ \A g \in Flows \ {f} :
           flows[g].vid = flows[f].vid => flows[g].pc \in {"idle", "done"})
    => /\ archive_index[flows[f].vid] \in {"saved", "partial", "stopped", "failed"}
            => flows[f].vid \notin active_lives
       /\ flows[f].vid \notin active_lives
            => archive_index[flows[f].vid] # "recording"

\* C31: the archive index is written only by a worker holding the runtime
\* state lock: no record of the index changes while another worker holds
\* STATE.state_lock
C31_IndexWrittenUnderLock ==
  [][(\E v \in Vids : archive_index'[v] # archive_index[v]) => state_lock = 0]_vars

\* C32: whatever the number of threads asking, in every window of 60 seconds
\* at most rpm calls of _claude_wait_for_slot return with a slot
C32_RateLimit ==
  \A i \in 1..Len(rl_grants) :
    Cardinality({j \in i..Len(rl_grants) : rl_grants[j] < rl_grants[i] + window_sec}) <= rpm

\* C33: a stop request accepted for an active recording is not lost: while
\* the video is in ActiveLives its pending stop bit is cleared only by the
\* recording's own handler of LIVE_STOP_REQUESTED, never by a later start
\* request for the same video
C33_StopBitKept ==
  [][\A v \in Vids :
       (v \in stop_live_requests /\ v \in active_lives /\ v \notin stop_live_requests')
       => \E f \in Flows : /\ flows[f].vid = v
                           /\ flows[f].pc = "h2"
                           /\ flows[f].reason = "LIVE_STOP_REQUESTED"
                           /\ flows'[f].pc # "h2"]_vars

\* C34: when two workflows that read-modify-write the index for different
\* videos have both saved, the stored index holds the update of each
C34_NoLostIndexUpdate ==
  \A w1, w2 \in IdxWorkers :
    (/\ w1 # w2
     /\ idx_workers[w1].pc = "done" /\ idx_workers[w2].pc = "done"
     /\ idx_workers[w1].vid # idx_workers[w2].vid
     /\ idx_workers[w1].kind # "cleanup" /\ idx_workers[w2].kind # "cleanup")
    => /\ w1 \in db_archive_index[idx_workers[w1].vid].updates
       /\ w2 \in db_archive_index[idx_workers[w2].vid].updates

\* C35: a save_index call leaves the stored transcript chunks, chunk
\* embeddings and video embedding of every video that is in the index before
\* and after the call as they were
C35_SaveIndexKeepsDerived ==
  [][(\E w \in IdxWorkers : idx_workers[w].pc = "loaded" /\ idx_workers'[w].pc = "done")
       => \A v \in IdxVids :
            (db_archive_index[v].present /\ db_archive_index'[v].present)
              => db_derived'[v] = db_derived[v]]_vars

\* C36: the terminal outcome of a research run is final: a persisted run
\* finalized as completed is not finalized as failed afterwards, nor the
\* reverse; after a `completed` event no `failed` event is emitted, nor the
\* reverse; a BrewJob completed or failed keeps that status to its end
C36_OutcomeFinal ==
  [][/\ \A id \in RunIds :
          research_runs[id].status \in {"completed", "failed"}
            => research_runs'[id].status = research_runs[id].status
     /\ (Len(progress_events') > Len(progress_events) /\ progress_events # <<>>)
          => LET last == progress_events[Len(progress_events)].event_type
                 new == progress_events'[Len(progress_events')].event_type
             IN /\ last = "completed" => new # "failed"
                /\ last = "failed" => new # "completed"
     /\ (brew_job.status \in {"completed", "failed"} /\ brew_job'.status # "queued")
          => brew_job'.status = brew_job.status]_vars

\* C37: in the events of a research run the event that follows
\* processing_video(i) is video_processed(i) (or `failed`): never the next
\* processing_video, `comparing` or `completed`
C37_ProcessedFollowsProcessing ==
  \A k \in 1..(Len(progress_events) - 1) :
    progress_events[k].event_type = "processing_video"
      => \/ progress_events[k + 1].event_type = "failed"
         \/ /\ progress_events[k + 1].event_type = "video_processed"
            /\ progress_events[k + 1].current_index = progress_events[k].current_index

\* C38: at any time at most one component-test job of a component is queued
\* or running, whatever the number of request threads starting tests for it
C38_OneActiveJobPerComponent ==
  \A comp \in Components :
    Cardinality({j \in 1..Len(ct_jobs) :
                   ct_jobs[j].component = comp /\ ct_jobs[j].status \in {"queued", "running"}}) <= 1

\* C39: a video id added to replay_tasks is removed in the end, for flows
\* started from the bot and from web request threads alike
C39_ReplayTaskReleased ==
  \A v \in Vids : (v \in replay_tasks) ~> (v \notin replay_tasks)

\* C40: the progress ratio of a BrewJob is within [0, 1] (0..100 hundredths)
\* and, from the creation of the job on, no update of the job lowers it
C40_RatioMonotone ==
  [][/\ brew_job'.ratio \in 0..FullRatio
     /\ brew_job'.status # "queued" => brew_job'.ratio >= brew_job.ratio]_vars

\* a job that went through more than one video and reached the full ratio
C40_Witness ==
  /\ brew_job.status = "completed"
  /\ brew_job.ratio = FullRatio
  /\ brew_job.total_videos >= 2
  /\ brew_job.reviewed >= 1

====
